---- MODULE Spec2Model ----
(***************************************************************************)
(* Observability core of jwt-pizza-service: the in-memory metrics          *)
(* aggregator with its periodic flush and scheduler (metrics.js part of    *)
(* src/src/logger.js, lines 185-453) and the HTTP log interceptor with its *)
(* log transport (Logger class, lines 1-182).                              *)
(*                                                                         *)
(* Time stamps (Date.now()) are not part of the state: a latency is an     *)
(* input drawn when the response finishes, and timeUnixNano is left out of *)
(* the samples.                                                            *)
(***************************************************************************)
EXTENDS Integers, Sequences, FiniteSets, TLC

\* ------------------------------------------------------------------ bounds
MaxEvents == 2        \* requests, auth attempts, purchases and users logged in
MaxFlushes == 2       \* timer ticks per run
MaxStarts == 2        \* startMetricsReporting calls per run
MaxCalls == 2         \* res.send / res.json calls of a route handler per request
MaxParams == 2        \* elements of a params array

\* ------------------------------------------------------- program constants
LatencyCapacity == 1000   \* if (endpointLatencies.length > 1000) shift()
TrimThreshold == 100      \* if (endpointLatencies.length > 100)
TrimKeep == 50            \* endpointLatencies.slice(-50)

\* ------------------------------------------------------------------ inputs
Methods == {"GET", "POST"}
Users == {"u1", "u2"}
Latencies == {0, 120}
\* An optional argument is <<>> when it is not passed and <<v>> when it is.
Absent == <<>>
Prices == {Absent, <<-1>>, <<0>>, <<2>>}
OptLatencies == {Absent} \cup {<<l>> : l \in Latencies}
Periods == {10000, 60000}
\* os.loadavg()[0] * 100, os.cpus().length
LoadAvgs == {250}
CpuCounts == {2}
\* os.totalmem(), os.freemem()
TotalMems == {4}
FreeMems == {1}
\* config.metrics.apiKey when it is set: "i:k" (has a colon), "k" (has none)
ApiKeys == {<<"i", ":", "k">>, <<"k">>}
\* what the collector does with a POST
Outcomes == {"ok", "status500", "status500TextFails", "networkError"}

VARIABLES
    cfg,                    \* config.js, fixed for the life of the process
    requests,               \* { method: count }, in insertion order
    endpointLatencies,      \* array of { endpoint, latency }
    activeUsers,            \* Set of user ids
    authSuccessCount,
    authFailureCount,
    pizzaSoldCount,
    pizzaCreationFailures,
    pizzaRevenue,
    pizzaCreationLatencies, \* array of latencies
    finishListeners,        \* res.on('finish') callbacks not yet run
    metricsTimer,           \* the module's timer handle, 0 = null
    timers,                 \* interval timers armed in the runtime
    timerSeq,               \* handles given out so far
    posts,                  \* fetch() promises not yet settled
    console,                \* console.error lines of the last step
    unhandled,              \* a promise chain ended rejected with no handler
    lastBatch,              \* the batch the last flush handed to the transport
    sendOutcome,            \* how the last transport call ended for its caller
    flushes,                \* timer ticks so far
    http,                   \* per request: req, the res object, what ran on it
    raised,                 \* what the last res.send / res.json call raised
    settled,                \* per sink, how its last settled POST ended
    hookCalls,              \* history: the hook calls made since the process started
    call                    \* the last direct call of a Logger method and its result

vars == <<cfg, requests, endpointLatencies, activeUsers, authSuccessCount,
          authFailureCount, pizzaSoldCount, pizzaCreationFailures, pizzaRevenue,
          pizzaCreationLatencies, finishListeners, metricsTimer, timers, timerSeq,
          posts, console, unhandled, lastBatch, sendOutcome, flushes, http,
          raised, settled, hookCalls, call>>

counters == <<requests, authSuccessCount, authFailureCount, pizzaSoldCount,
              pizzaCreationFailures, pizzaRevenue>>

aggregator == <<requests, endpointLatencies, activeUsers, authSuccessCount,
                authFailureCount, pizzaSoldCount, pizzaCreationFailures,
                pizzaRevenue, pizzaCreationLatencies, finishListeners>>

scheduler == <<metricsTimer, timers, timerSeq>>

logger == <<http, raised>>

\* ----------------------------------------------------------------- helpers
\* reduce((a, b) => a + b, 0), summed by halves
RECURSIVE SumSeq(_)
SumSeq(s) ==
    IF Len(s) = 0 THEN 0
    ELSE IF Len(s) = 1 THEN s[1]
    ELSE LET half == Len(s) \div 2
         IN SumSeq(SubSeq(s, 1, half)) + SumSeq(SubSeq(s, half + 1, Len(s)))

Min(a, b) == IF a < b THEN a ELSE b
Max(a, b) == IF a > b THEN a ELSE b

\* Math.round of the quotient n / d for n >= 0, d > 0
RoundDiv(n, d) == (2 * n + d) \div (2 * d)

\* A slice that keeps the oldest k: slice(0, k).
SliceFirst(s, k) == IF Len(s) <= k THEN s ELSE SubSeq(s, 1, k)

\* Array.prototype.slice(-k)
SliceLast(s, k) == IF Len(s) <= k THEN s ELSE SubSeq(s, Len(s) - k + 1, Len(s))

\* String.prototype.includes(':') on a string held as its characters
Includes(str, ch) == \E i \in 1..Len(str) : str[i] = ch

\* requests[method] || 0
RequestCount(reqs, method) ==
    IF \E i \in 1..Len(reqs) : reqs[i].method = method
    THEN (CHOOSE e \in {reqs[i] : i \in 1..Len(reqs)} : e.method = method).count
    ELSE 0

\* requests[method] = n  (a new key is appended, an old one keeps its place)
SetRequestCount(reqs, method, n) ==
    IF \E i \in 1..Len(reqs) : reqs[i].method = method
    THEN [i \in 1..Len(reqs) |->
            IF reqs[i].method = method THEN [method |-> method, count |-> n] ELSE reqs[i]]
    ELSE Append(reqs, [method |-> method, count |-> n])

\* array.push(x); if (array.length > 1000) array.shift()
PushBounded(arr, x) ==
    LET pushed == Append(arr, x)
    IN IF Len(pushed) > LatencyCapacity THEN Tail(pushed) ELSE pushed

\* What the aggregator has recorded so far; the hooks stop at MaxEvents.
Recorded ==
    SumSeq([i \in 1..Len(requests) |-> requests[i].count])
    + authSuccessCount + authFailureCount + pizzaSoldCount + pizzaCreationFailures
    + Cardinality(activeUsers)

\* ------------------------------------------------------------- event hooks
\* A tracker that records a latency of 0 at once, as the request starts.
RequestTrackerRecordsAtStart(method) ==
    /\ Recorded < MaxEvents
    /\ requests' = SetRequestCount(requests, method, RequestCount(requests, method) + 1)
    /\ finishListeners' = Append(finishListeners, method)
    /\ endpointLatencies' =
         PushBounded(endpointLatencies, [endpoint |-> method, latency |-> 0])
    /\ console' = <<>>
    /\ hookCalls' = [hookCalls EXCEPT
                        !.requests[method] = @ + 1,
                        !.endpointSamples = Append(@, [endpoint |-> method, latency |-> 0])]
    /\ UNCHANGED <<logger, settled, cfg, call, activeUsers, authSuccessCount,
                   authFailureCount, pizzaSoldCount, pizzaCreationFailures,
                   pizzaRevenue, pizzaCreationLatencies, scheduler, posts,
                   unhandled, lastBatch, sendOutcome, flushes>>

\* requestTracker(req, res, next): counts the request and registers the
\* 'finish' listener; next() runs the rest of the pipeline.
RequestTracker(method) ==
    /\ Recorded < MaxEvents
    /\ requests' = SetRequestCount(requests, method, RequestCount(requests, method) + 1)
    /\ finishListeners' = Append(finishListeners, method)
    /\ console' = <<>>
    /\ hookCalls' = [hookCalls EXCEPT !.requests[method] = @ + 1]
    /\ UNCHANGED <<logger, settled, cfg, call, endpointLatencies, activeUsers, authSuccessCount,
                   authFailureCount, pizzaSoldCount, pizzaCreationFailures,
                   pizzaRevenue, pizzaCreationLatencies, scheduler, posts,
                   unhandled, lastBatch, sendOutcome, flushes>>

\* The 'finish' listener of request i: latency = Date.now() - startTime.
ResponseFinish(i, latency) ==
    /\ i \in 1..Len(finishListeners)
    /\ endpointLatencies' =
         PushBounded(endpointLatencies,
                     [endpoint |-> finishListeners[i], latency |-> latency])
    /\ finishListeners' =
         [j \in 1..(Len(finishListeners) - 1) |->
            IF j < i THEN finishListeners[j] ELSE finishListeners[j + 1]]
    /\ console' = <<>>
    /\ hookCalls' = [hookCalls EXCEPT !.endpointSamples =
                        Append(@, [endpoint |-> finishListeners[i], latency |-> latency])]
    /\ UNCHANGED <<logger, settled, cfg, call, requests, activeUsers, authSuccessCount, authFailureCount,
                   pizzaSoldCount, pizzaCreationFailures, pizzaRevenue,
                   pizzaCreationLatencies, scheduler, posts, unhandled, lastBatch,
                   sendOutcome, flushes>>

\* A hook that counts every attempt as a success.
TrackAuthAttemptAsSuccess(success) ==
    /\ Recorded < MaxEvents
    /\ authSuccessCount' = authSuccessCount + 1
    /\ authFailureCount' = authFailureCount
    /\ console' = <<>>
    /\ hookCalls' = IF success THEN [hookCalls EXCEPT !.authSuccess = @ + 1]
                            ELSE [hookCalls EXCEPT !.authFailure = @ + 1]
    /\ UNCHANGED <<logger, settled, cfg, call, requests, endpointLatencies, activeUsers, pizzaSoldCount,
                   pizzaCreationFailures, pizzaRevenue, pizzaCreationLatencies,
                   finishListeners, scheduler, posts, unhandled, lastBatch,
                   sendOutcome, flushes>>

TrackAuthAttempt(success) ==
    /\ Recorded < MaxEvents
    /\ authSuccessCount' = IF success THEN authSuccessCount + 1 ELSE authSuccessCount
    /\ authFailureCount' = IF success THEN authFailureCount ELSE authFailureCount + 1
    /\ console' = <<>>
    /\ hookCalls' = IF success THEN [hookCalls EXCEPT !.authSuccess = @ + 1]
                            ELSE [hookCalls EXCEPT !.authFailure = @ + 1]
    /\ UNCHANGED <<logger, settled, cfg, call, requests, endpointLatencies, activeUsers, pizzaSoldCount,
                   pizzaCreationFailures, pizzaRevenue, pizzaCreationLatencies,
                   finishListeners, scheduler, posts, unhandled, lastBatch,
                   sendOutcome, flushes>>

TrackActiveUser(userId) ==
    /\ Recorded < MaxEvents
    /\ activeUsers' = activeUsers \cup {userId}
    /\ console' = <<>>
    /\ hookCalls' = [hookCalls EXCEPT !.loggedIn = @ \cup {userId}]
    /\ UNCHANGED <<logger, settled, cfg, call, requests, endpointLatencies, authSuccessCount,
                   authFailureCount, pizzaSoldCount, pizzaCreationFailures,
                   pizzaRevenue, pizzaCreationLatencies, finishListeners, scheduler,
                   posts, unhandled, lastBatch, sendOutcome, flushes>>

\* A logout that leaves the id in the set.
TrackUserLogoutKeepsId(userId) ==
    /\ Recorded < MaxEvents
    /\ activeUsers' = activeUsers
    /\ console' = <<>>
    /\ hookCalls' = [hookCalls EXCEPT !.loggedIn = @ \ {userId}]
    /\ UNCHANGED <<logger, settled, cfg, call, requests, endpointLatencies, authSuccessCount,
                   authFailureCount, pizzaSoldCount, pizzaCreationFailures,
                   pizzaRevenue, pizzaCreationLatencies, finishListeners, scheduler,
                   posts, unhandled, lastBatch, sendOutcome, flushes>>

TrackUserLogout(userId) ==
    /\ Recorded < MaxEvents
    /\ activeUsers' = activeUsers \ {userId}
    /\ console' = <<>>
    /\ hookCalls' = [hookCalls EXCEPT !.loggedIn = @ \ {userId}]
    /\ UNCHANGED <<logger, settled, cfg, call, requests, endpointLatencies, authSuccessCount,
                   authFailureCount, pizzaSoldCount, pizzaCreationFailures,
                   pizzaRevenue, pizzaCreationLatencies, finishListeners, scheduler,
                   posts, unhandled, lastBatch, sendOutcome, flushes>>

\* A default price of one.
PriceOrOne(price) == IF price = Absent THEN 1 ELSE price[1]

\* price || 0
PriceOrZero(price) == IF price = Absent THEN 0 ELSE price[1]

\* pizzaRevenue += price || 0
RevenueAfterSale(revenue, price) == revenue + PriceOrZero(price)

\* trackPizzaPurchase(success, latency, price)
PizzaPurchase(success, latency, price) ==
    /\ pizzaSoldCount' = IF success THEN pizzaSoldCount + 1 ELSE pizzaSoldCount
    /\ pizzaRevenue' = IF success THEN RevenueAfterSale(pizzaRevenue, price)
                       ELSE pizzaRevenue
    /\ pizzaCreationFailures' =
         IF success THEN pizzaCreationFailures ELSE pizzaCreationFailures + 1
    /\ pizzaCreationLatencies' =
         IF latency # Absent THEN PushBounded(pizzaCreationLatencies, latency[1])
         ELSE pizzaCreationLatencies
    /\ console' = <<>>
    /\ hookCalls' = [hookCalls EXCEPT
                        !.sold = IF success THEN @ + 1 ELSE @,
                        !.failed = IF success THEN @ ELSE @ + 1,
                        !.revenue = IF success /\ price # Absent THEN @ + price[1] ELSE @,
                        !.latencies = IF latency # Absent THEN @ + 1 ELSE @,
                        !.pizzaSamples = IF latency # Absent THEN Append(@, latency[1]) ELSE @]
    /\ UNCHANGED <<logger, settled, cfg, call, requests, endpointLatencies, activeUsers, authSuccessCount,
                   authFailureCount, finishListeners, scheduler, posts, unhandled,
                   lastBatch, sendOutcome, flushes>>

\* The hook as the application calls it, while the run has events left.
TrackPizzaPurchase(success, latency, price) ==
    /\ Recorded < MaxEvents
    /\ PizzaPurchase(success, latency, price)

\* ---------------------------------------------------------- system metrics
\* Math.min(100, Math.max(0, loadavg / cpus * 100)), in whole percent
GetCpuUsagePercentage(load100, cpus) == Min(100, Max(0, load100 \div cpus))

\* Math.min(100, Math.max(0, (total - free) / total * 100)), in whole percent
GetMemoryUsagePercentage(total, free) ==
    Min(100, Max(0, ((total - free) * 100) \div total))

\* typeof l === 'number' ? l : l.latency, for the two arrays
LatencyValues(latencies, isRecords) ==
    [i \in 1..Len(latencies) |->
        IF isRecords THEN latencies[i].latency ELSE latencies[i]]

GetAverageLatency(values) ==
    IF Len(values) = 0 THEN 0 ELSE RoundDiv(SumSeq(values), Len(values))

\* ------------------------------------------------------------ createMetric
\* A sample that keeps the attributes passed and adds none.
CreateMetricWithoutSource(metricName, metricValue, metricUnit, metricType, valueType, attributes) ==
    [ name |-> metricName,
      unit |-> metricUnit,
      type |-> metricType,
      valueType |-> valueType,
      value |-> metricValue,
      attributes |-> attributes,
      aggregationTemporality |->
          IF metricType = "sum" THEN "AGGREGATION_TEMPORALITY_CUMULATIVE" ELSE "absent",
      isMonotonic |-> IF metricType = "sum" THEN "true" ELSE "absent" ]

\* attributes = { ...attributes, source: config.metrics.source }; the marks
\* aggregationTemporality and isMonotonic are set for metricType 'sum' only.
CreateMetric(metricName, metricValue, metricUnit, metricType, valueType, attributes) ==
    [ name |-> metricName,
      unit |-> metricUnit,
      type |-> metricType,
      valueType |-> valueType,
      value |-> metricValue,
      attributes |-> Append(attributes, <<"source", cfg.metricsSource>>),
      aggregationTemporality |->
          IF metricType = "sum" THEN "AGGREGATION_TEMPORALITY_CUMULATIVE" ELSE "absent",
      isMonotonic |-> IF metricType = "sum" THEN "true" ELSE "absent" ]

\* ------------------------------------------------------ metrics transport
\* config.metrics.apiKey.includes(':') ? Basic base64(key) : Bearer key
MetricsAuthHeader(apiKey) == IF Includes(apiKey, ":") THEN "Basic" ELSE "Bearer"

\* sendMetricToGrafana(metrics), up to the point where it returns to its
\* caller: what it raises and which fetch() it has issued (the body is the
\* serialised batch, held here as the number of the flush that built it;
\* lastBatch holds its samples).  apiKey.includes
\* on an absent key raises a TypeError; an absent url is interpolated into
\* the string "undefined" and handed to fetch all the same.
SendMetricToGrafana(metrics) ==
    IF Len(metrics) = 0
    THEN [threw |-> FALSE, fetch |-> <<>>]
    ELSE IF ~cfg.metricsApiKeyPresent
    THEN [threw |-> TRUE, fetch |-> <<>>]
    ELSE [threw |-> FALSE,
          fetch |-> << [sink |-> "metrics",
                        urlOk |-> cfg.metricsUrl,
                        auth |-> MetricsAuthHeader(cfg.metricsApiKey),
                        body |-> [flush |-> flushes + 1]] >>]

\* .then((response) => { if (!response.ok) return response.text().then(... throw) })
MetricsThen(outcome) ==
    CASE outcome = "ok" -> [state |-> "fulfilled", console |-> <<>>]
      [] outcome = "status500" ->
            [state |-> "rejected",
             console |-> <<"Failed to push metrics. Status", "Response">>]
      [] outcome = "status500TextFails" -> [state |-> "rejected", console |-> <<>>]
      [] outcome = "networkError" -> [state |-> "rejected", console |-> <<>>]

\* A chain with no .catch at its end.
MetricsCatchMissing(p) == p

\* .catch((error) => { console.error('Error pushing metrics:', error.message) })
MetricsCatch(p) ==
    IF p.state = "rejected"
    THEN [state |-> "fulfilled", console |-> Append(p.console, "Error pushing metrics")]
    ELSE p

MetricsChain(outcome) == MetricsCatch(MetricsThen(outcome))

\* ------------------------------------------------------------- flush cycle
HttpRequestSamples ==
    [i \in 1..Len(requests) |->
        CreateMetric("http_requests_total", requests[i].count, "1", "sum", "asInt",
                     << <<"method", requests[i].method>> >>)]

\* The number of buckets instead of the sum of their counts.
TotalBuckets == Len(requests)

TotalRequests == SumSeq([i \in 1..Len(requests) |-> requests[i].count])

LatencySample(name, avg) ==
    IF avg > 0 THEN << CreateMetric(name, avg, "ms", "gauge", "asInt", <<>>) >> ELSE <<>>

\* The batch the timer callback builds, in the order it pushes the samples.
BuildMetrics(cpu, mem) ==
    HttpRequestSamples
    \o << CreateMetric("http_requests_total", TotalRequests, "1", "sum", "asInt",
                       << <<"method", "ALL">> >>),
          CreateMetric("active_users", Cardinality(activeUsers), "1", "gauge", "asInt", <<>>),
          CreateMetric("auth_attempts_total", authSuccessCount, "1", "sum", "asInt",
                       << <<"status", "success">> >>),
          CreateMetric("auth_attempts_total", authFailureCount, "1", "sum", "asInt",
                       << <<"status", "failure">> >>),
          CreateMetric("cpu_usage_percent", cpu, "%", "gauge", "asDouble", <<>>),
          CreateMetric("memory_usage_percent", mem, "%", "gauge", "asDouble", <<>>),
          CreateMetric("pizza_sold_total", pizzaSoldCount, "1", "sum", "asInt", <<>>),
          CreateMetric("pizza_creation_failures_total", pizzaCreationFailures, "1",
                       "sum", "asInt", <<>>),
          CreateMetric("pizza_revenue_total", pizzaRevenue, "1", "sum", "asDouble", <<>>) >>
    \o LatencySample("endpoint_latency_ms",
                     GetAverageLatency(LatencyValues(endpointLatencies, TRUE)))
    \o LatencySample("pizza_creation_latency_ms",
                     GetAverageLatency(LatencyValues(pizzaCreationLatencies, FALSE)))

\* if (latencies.length > 100) latencies = latencies.slice(-50)
TrimLatencies(latencies) ==
    IF Len(latencies) > TrimThreshold THEN SliceLast(latencies, TrimKeep) ELSE latencies

\* A callback that starts every period from zero.
FlushCountersReset ==
    /\ requests' = [i \in 1..Len(requests) |-> [requests[i] EXCEPT !.count = 0]]
    /\ authSuccessCount' = 0
    /\ authFailureCount' = 0
    /\ pizzaSoldCount' = 0
    /\ pizzaCreationFailures' = 0
    /\ pizzaRevenue' = 0

\* What the timer callback does to the cumulative counters: nothing
\* ("NO COUNTERS ARE EVER RESET NOW").
FlushCounters ==
    UNCHANGED <<requests, authSuccessCount, authFailureCount, pizzaSoldCount,
                pizzaCreationFailures, pizzaRevenue>>

\* A callback without try/catch: what sendMetricToGrafana raises leaves the
\* callback and the timer is gone with it.
FlushAndReportUncaught(t, cpu, mem) ==
    /\ t \in timers
    /\ flushes < MaxFlushes
    /\ LET metrics == BuildMetrics(cpu, mem)
           sent == SendMetricToGrafana(metrics)
       IN /\ lastBatch' = metrics
          /\ posts' = posts \o sent.fetch
          /\ sendOutcome' = IF sent.threw THEN "threw" ELSE "returned"
          /\ console' = <<>>
          /\ unhandled' = (unhandled \/ sent.threw)
          /\ timers' = IF sent.threw THEN {} ELSE timers
          /\ endpointLatencies' =
               IF sent.threw THEN endpointLatencies ELSE TrimLatencies(endpointLatencies)
          /\ pizzaCreationLatencies' =
               IF sent.threw THEN pizzaCreationLatencies
               ELSE TrimLatencies(pizzaCreationLatencies)
    /\ FlushCounters
    /\ flushes' = flushes + 1
    /\ UNCHANGED <<logger, settled, cfg, call, hookCalls, activeUsers, finishListeners,
                   metricsTimer, timerSeq>>

\* One tick of interval timer t: the callback of sendMetricsPeriodically.
\* An exception of sendMetricToGrafana is caught by the callback's own
\* try/catch, which skips the trim that follows the call.
FlushAndReport(t, cpu, mem) ==
    /\ t \in timers
    /\ flushes < MaxFlushes
    /\ LET metrics == BuildMetrics(cpu, mem)
           sent == SendMetricToGrafana(metrics)
       IN /\ lastBatch' = metrics
          /\ posts' = posts \o sent.fetch
          /\ sendOutcome' = IF sent.threw THEN "threw" ELSE "returned"
          /\ console' = IF sent.threw THEN <<"Error sending metrics">> ELSE <<>>
          /\ endpointLatencies' =
               IF sent.threw THEN endpointLatencies ELSE TrimLatencies(endpointLatencies)
          /\ pizzaCreationLatencies' =
               IF sent.threw THEN pizzaCreationLatencies
               ELSE TrimLatencies(pizzaCreationLatencies)
    /\ FlushCounters
    /\ flushes' = flushes + 1
    /\ UNCHANGED <<logger, settled, cfg, call, hookCalls, activeUsers, finishListeners, scheduler, unhandled>>

\* --------------------------------------------------------------- scheduler
\* A restart that arms without cancelling.
KeepPriorTimer == timers

\* if (metricsTimer) clearInterval(metricsTimer)
ClearPriorTimer == IF metricsTimer # 0 THEN timers \ {metricsTimer} ELSE timers

\* startMetricsReporting(period): cancel, then arm through setInterval.
StartMetricsReporting(period) ==
    /\ timerSeq < MaxStarts
    /\ timerSeq' = timerSeq + 1
    /\ timers' = ClearPriorTimer \cup {timerSeq + 1}
    /\ metricsTimer' = timerSeq + 1
    /\ console' = <<>>
    /\ UNCHANGED <<logger, settled, cfg, call, hookCalls, aggregator, posts, unhandled, lastBatch, sendOutcome,
                   flushes>>

\* ------------------------------------------------- settling a metrics POST
RemoveAt(s, i) == [j \in 1..(Len(s) - 1) |-> IF j < i THEN s[j] ELSE s[j + 1]]

SettleMetricsPost(i, outcome) ==
    /\ i \in 1..Len(posts)
    /\ posts[i].sink = "metrics"
    /\ posts[i].urlOk \/ outcome = "networkError"
    /\ LET chain == MetricsChain(outcome)
       IN /\ console' = chain.console
          /\ unhandled' = (unhandled \/ chain.state = "rejected")
    /\ posts' = RemoveAt(posts, i)
    /\ settled' = [settled EXCEPT ![posts[i].sink] = outcome]
    /\ UNCHANGED <<logger, cfg, call, hookCalls, aggregator, scheduler, lastBatch, sendOutcome, flushes>>

\* ------------------------------------------------------------- JSON values
\* A JavaScript value is [t |-> its kind, v |-> its content]:
\*   "undef", "null"            v = 0
\*   "bool", "num", "str"       v = the primitive (a string that is no JSON text)
\*   "text"                     v = the value the string is the JSON text of
\*   "arr"                      v = the sequence of elements
\*   "obj"                      v = the sequence of <<key, value>> in key order,
\*                              a key being the sequence of its characters
Undef == [t |-> "undef", v |-> 0]
Null == [t |-> "null", v |-> 0]
Bool(b) == [t |-> "bool", v |-> b]
Num(n) == [t |-> "num", v |-> n]
Str(s) == [t |-> "str", v |-> s]
Text(x) == [t |-> "text", v |-> x]
Arr(elems) == [t |-> "arr", v |-> elems]
Obj(pairs) == [t |-> "obj", v |-> pairs]

\* typeof x === 'string'
IsString(x) == x.t \in {"str", "text"}

\* Boolean(x) for the values above ('' does not occur among the strings)
Truthy(x) ==
    CASE x.t \in {"undef", "null"} -> FALSE
      [] x.t = "bool" -> x.v
      [] x.t = "num" -> x.v # 0
      [] OTHER -> TRUE

\* JSON.stringify leaves out an object's undefined members and writes an
\* undefined array element as null; Serialised(x) is the value the text denotes.
RECURSIVE Serialised(_)
Serialised(x) ==
    CASE x.t = "obj" ->
            LET kept == SelectSeq(x.v, LAMBDA kv : kv[2].t # "undef")
            IN Obj([i \in 1..Len(kept) |-> <<kept[i][1], Serialised(kept[i][2])>>])
      [] x.t = "arr" ->
            Arr([i \in 1..Len(x.v) |->
                    IF x.v[i].t = "undef" THEN Null ELSE Serialised(x.v[i])])
      [] OTHER -> x

\* JSON.stringify(x): undefined for undefined, else the text.
JsonStringify(x) == IF x.t = "undef" THEN Undef ELSE Text(Serialised(x))

\* JSON.parse(s): the value of a JSON text; anything else is a SyntaxError.
JsonParseThrows(s) == s.t # "text"
JsonParse(s) == s.v

\* String.prototype.toLowerCase, character by character
UpperCase == <<"A", "B", "C", "D", "E", "F", "G", "H", "I", "J", "K", "L", "M",
               "N", "O", "P", "Q", "R", "S", "T", "U", "V", "W", "X", "Y", "Z">>
LowerCase == <<"a", "b", "c", "d", "e", "f", "g", "h", "i", "j", "k", "l", "m",
               "n", "o", "p", "q", "r", "s", "t", "u", "v", "w", "x", "y", "z">>
LowerChar(ch) ==
    IF \E i \in 1..Len(UpperCase) : UpperCase[i] = ch
    THEN LowerCase[CHOOSE i \in 1..Len(UpperCase) : UpperCase[i] = ch]
    ELSE ch
ToLowerCase(str) == [i \in 1..Len(str) |-> LowerChar(str[i])]

\* String.prototype.includes(sub)
IncludesString(str, sub) ==
    \E i \in 0..(Len(str) - Len(sub)) : SubSeq(str, i + 1, i + Len(sub)) = sub

kPassword == <<"p", "a", "s", "s", "w", "o", "r", "d">>
kApikey == <<"a", "p", "i", "k", "e", "y">>
kToken == <<"t", "o", "k", "e", "n">>
kAuthorization == <<"a", "u", "t", "h", "o", "r", "i", "z", "a", "t", "i", "o", "n">>

\* lower.includes('password') || lower.includes('apikey') || ...
IsSensitiveKey(key) ==
    LET lower == ToLowerCase(key)
    IN \/ IncludesString(lower, kPassword)
       \/ IncludesString(lower, kApikey)
       \/ IncludesString(lower, kToken)
       \/ IncludesString(lower, kAuthorization)

Redacted == Str("*****")

\* A clean() that does not descend into the values it keeps.
CleanShallow(o) ==
    IF o.t = "obj"
    THEN Obj([i \in 1..Len(o.v) |->
                 IF IsSensitiveKey(o.v[i][1]) THEN <<o.v[i][1], Redacted>> ELSE o.v[i]])
    ELSE o

\* clean(o): the keys of an array are its indices, none of them sensitive.
RECURSIVE Clean(_)
Clean(o) ==
    CASE o.t = "obj" ->
            Obj([i \in 1..Len(o.v) |->
                    IF IsSensitiveKey(o.v[i][1]) THEN <<o.v[i][1], Redacted>>
                    ELSE <<o.v[i][1], Clean(o.v[i][2])>>])
      [] o.t = "arr" -> Arr([i \in 1..Len(o.v) |-> Clean(o.v[i])])
      [] OTHER -> o

\* sanitize(obj): clone = JSON.parse(JSON.stringify(obj)); clean(clone).
\* JSON.parse(undefined) is a SyntaxError.
SanitizeThrows(obj) == obj.t = "undef"
Sanitize(obj) == Clean(JsonParse(JsonStringify(obj)))

\* ------------------------------------------------------------------ Logger
kAuthorized == <<"a", "u", "t", "h", "o", "r", "i", "z", "e", "d">>
kMethod == <<"m", "e", "t", "h", "o", "d">>
kPath == <<"p", "a", "t", "h">>
kStatus == <<"s", "t", "a", "t", "u", "s">>
kIp == <<"i", "p">>
kReq == <<"r", "e", "q">>
kRes == <<"r", "e", "s">>
kEmail == <<"e", "m", "a", "i", "l">>

\* A mapping with the limits one too high.
StatusToLogLevelAbove(statusCode) ==
    IF statusCode > 500 THEN "error"
    ELSE IF statusCode > 400 THEN "warn"
    ELSE "info"

\* statusToLogLevel(statusCode)
StatusToLogLevel(statusCode) ==
    IF statusCode >= 500 THEN "error"
    ELSE IF statusCode >= 400 THEN "warn"
    ELSE "info"

\* One entry of what happened on a response object, in order.
Note(m, ev, level, body) ==
    [m EXCEPT !.trace = Append(@, [ev |-> ev, level |-> level, body |-> body])]

Throw(m, error) == [m EXCEPT !.threw = error]

\* A transport that posts every event a second time.
SendLogToGrafanaTwice(m, event) ==
    IF ~cfg.loggingPresent \/ ~cfg.loggingUrl \/ ~cfg.loggingApiKey
    THEN [m EXCEPT !.console = Append(@, "Logging not configured"),
                   !.sent = "returned"]
    ELSE LET post == [sink |-> "logs", urlOk |-> TRUE, auth |-> "Bearer", body |-> event]
         IN [m EXCEPT !.fetches = @ \o <<post, post>>, !.sent = "returned"]

\* sendLogToGrafana(event): a configuration diagnostic and no request when
\* config.logging, its url or its apiKey is missing; else one fetch, whose
\* promise chain settles later.
SendLogToGrafana(m, event) ==
    IF ~cfg.loggingPresent \/ ~cfg.loggingUrl \/ ~cfg.loggingApiKey
    THEN [m EXCEPT !.console = Append(@, "Logging not configured"),
                   !.sent = "returned"]
    ELSE [m EXCEPT !.fetches = Append(@, [sink |-> "logs", urlOk |-> TRUE,
                                          auth |-> "Bearer", body |-> event]),
                   !.sent = "returned"]

\* log(level, type, logData): config.logging.source is read first and raises
\* a TypeError when config.logging is missing.
Log(m, level, type, logData) ==
    IF ~cfg.loggingPresent THEN Throw(m, "TypeError")
    ELSE IF SanitizeThrows(logData) THEN Throw(m, "SyntaxError")
    ELSE LET text == JsonStringify(Sanitize(logData))
             event == [component |-> cfg.loggingSource, level |-> level,
                       type |-> type, values |-> <<text>>]
         IN SendLogToGrafana(Note(m, "log", level, text), event)

\* req.headers['x-forwarded-for'] || req.socket.remoteAddress
ClientIp(req) == IF Truthy(req.xForwardedFor) THEN req.xForwardedFor ELSE req.remoteAddress

\* A logData that carries the header itself.
LogDataWithCredential(m, body) ==
    Obj(<< <<kAuthorized, m.req.authorization>>,
           <<kMethod, Str(m.req.method)>>,
           <<kPath, Str(m.req.originalUrl)>>,
           <<kStatus, Num(m.statusCode)>>,
           <<kIp, ClientIp(m.req)>>,
           <<kReq, m.req.body>>,
           <<kRes, IF IsString(body) /\ ~JsonParseThrows(body) THEN JsonParse(body)
                   ELSE body>> >>)

\* A logResponse that logs every body as it is given.
ParsedBodyRaw(body) == body

\* logResponse(body)
ParsedBody(body) ==
    IF IsString(body)
    THEN (IF JsonParseThrows(body) THEN body ELSE JsonParse(body))
    ELSE body

LogData(m, body) ==
    Obj(<< <<kAuthorized, Bool(Truthy(m.req.authorization))>>,
           <<kMethod, Str(m.req.method)>>,
           <<kPath, Str(m.req.originalUrl)>>,
           <<kStatus, Num(m.statusCode)>>,
           <<kIp, ClientIp(m.req)>>,
           <<kReq, m.req.body>>,
           <<kRes, ParsedBody(body)>> >>)

LogResponse(m, body) ==
    Log(m, StatusToLogLevel(m.statusCode), "http", LogData(m, body))

\* ----------------------------------------------- the response object's slots
\* res.send and res.json hold either the framework's own method or the
\* interceptor's wrapper.  The framework's send passes a non-string body to
\* this.json, and its json serialises the body and passes it to this.send; both
\* look the method up on the response object at the time of the call.
RECURSIVE DoSend(_, _), DoJson(_, _)

\* the response is written out; headers cannot be set twice
EndResponse(m, body) ==
    IF m.finished THEN Throw(m, "ERR_HTTP_HEADERS_SENT")
    ELSE Note([m EXCEPT !.finished = TRUE], "end", "", body)

\* originalSend.call(res, body)
OriginalSend(m, body) ==
    LET m1 == Note(m, "originalSend", "", body)
    IN IF body.t \in {"obj", "arr", "bool", "num"} THEN DoJson(m1, body)
       ELSE EndResponse(m1, body)

\* originalJson.call(res, body)
OriginalJson(m, body) == DoSend(Note(m, "originalJson", "", body), JsonStringify(body))

\* res.send = (body) => { logResponse(body); res.send = originalSend;
\*                        return originalSend.call(res, body); }
WrappedSend(m, body) ==
    LET m1 == LogResponse(Note(m, "wrappedSend", "", body), body)
    IN IF m1.threw # "none" THEN m1
       ELSE OriginalSend([m1 EXCEPT !.send = "original"], body)

\* res.json = (body) => { logResponse(body); res.json = originalJson;
\*                        return originalJson.call(res, body); }
WrappedJson(m, body) ==
    LET m1 == LogResponse(Note(m, "wrappedJson", "", body), body)
    IN IF m1.threw # "none" THEN m1
       ELSE OriginalJson([m1 EXCEPT !.json = "original"], body)

DoSend(m, body) ==
    IF m.threw # "none" THEN m
    ELSE IF m.send = "wrapped" THEN WrappedSend(m, body)
    ELSE OriginalSend(m, body)

DoJson(m, body) ==
    IF m.threw # "none" THEN m
    ELSE IF m.json = "wrapped" THEN WrappedJson(m, body)
    ELSE OriginalJson(m, body)

\* ------------------------------------------------------------- httpLogger
HttpRequests ==
    { [method |-> "PUT", originalUrl |-> "/api/auth", authorization |-> Undef,
       xForwardedFor |-> Undef, remoteAddress |-> Str("10.0.0.1"),
       body |-> Obj(<< <<kEmail, Str("a@jwt.com")>>, <<kPassword, Str("a")>> >>)],
      [method |-> "GET", originalUrl |-> "/api/order", authorization |-> Str("Bearer t1"),
       xForwardedFor |-> Str("1.2.3.4"), remoteAddress |-> Str("10.0.0.1"),
       body |-> Obj(<<>>)],
      [method |-> "GET", originalUrl |-> "/api/order", authorization |-> Str("Bearer t2"),
       xForwardedFor |-> Str("1.2.3.4"), remoteAddress |-> Str("10.0.0.1"),
       body |-> Obj(<<>>)] }

ResponseBodies ==
    { Obj(<< <<kToken, Str("t1")>> >>),
      Text(Obj(<< <<kToken, Str("t1")>> >>)),
      Str("unauthorized") }

\* res.status(code): 2xx is the default; the codes next to the limits
StatusCodes == {399, 400, 499, 500}

\* the requests of a run
RequestIds == {1}

NoRequest == CHOOSE q \in HttpRequests : TRUE

\* A response object the interceptor has not seen.
FreshResponse ==
    [stage |-> "idle", req |-> NoRequest, send |-> "original", json |-> "original",
     statusCode |-> 200, finished |-> FALSE, calls |-> 0, trace |-> <<>>,
     fetches |-> <<>>, console |-> <<>>, threw |-> "none", sent |-> "none"]

\* httpLogger(req, res, next): captures the two methods, installs the two
\* wrappers and calls next().
HttpLogger(r, req) ==
    /\ http[r].stage = "idle"
    /\ \A q \in 1..(r - 1) : http[q].stage = "open"
    /\ http' = [http EXCEPT ![r] =
                  Note([@ EXCEPT !.stage = "open", !.req = req,
                                 !.send = "wrapped", !.json = "wrapped"],
                       "next", "", Undef)]
    /\ raised' = "none"
    /\ console' = <<>>
    /\ UNCHANGED <<settled, cfg, call, hookCalls, aggregator, scheduler, posts, unhandled, lastBatch,
                   sendOutcome, flushes>>

\* The route handler sets the status: res.status(code).
SetStatus(r, code) ==
    /\ http[r].stage = "open"
    /\ ~http[r].finished
    /\ http[r].statusCode = 200
    /\ http' = [http EXCEPT ![r].statusCode = code]
    /\ UNCHANGED <<raised, settled, cfg, call, hookCalls, aggregator, scheduler, posts, console,
                   unhandled, lastBatch, sendOutcome, flushes>>

\* Wrappers that keep the captured methods in one place for all responses:
\* the restore of one response restores the others as well.
AfterCallRestoresAll(r, m) ==
    /\ http' = [q \in DOMAIN http |->
                  IF q = r
                  THEN [m EXCEPT !.fetches = <<>>, !.console = <<>>,
                                 !.threw = "none", !.sent = "none"]
                  ELSE [http[q] EXCEPT !.send = m.send, !.json = m.json]]
    /\ posts' = posts \o m.fetches
    /\ console' = m.console
    /\ raised' = m.threw
    /\ sendOutcome' = IF m.sent = "none" THEN sendOutcome ELSE m.sent
    /\ UNCHANGED <<settled, cfg, call, hookCalls, aggregator, scheduler, unhandled, lastBatch, flushes>>

\* What a call on the response object leaves behind: the object itself, the
\* fetches it issued, its diagnostics and what it raised into the handler.
AfterCall(r, m) ==
    /\ http' = [http EXCEPT ![r] = [m EXCEPT !.fetches = <<>>, !.console = <<>>,
                                             !.threw = "none", !.sent = "none"]]
    /\ posts' = posts \o m.fetches
    /\ console' = m.console
    /\ raised' = m.threw
    /\ sendOutcome' = IF m.sent = "none" THEN sendOutcome ELSE m.sent
    /\ UNCHANGED <<settled, cfg, call, hookCalls, aggregator, scheduler, unhandled, lastBatch, flushes>>

\* The route handler calls res.send(body).
ResSend(r, body) ==
    /\ http[r].stage = "open"
    /\ http[r].calls < MaxCalls
    /\ AfterCall(r, DoSend([http[r] EXCEPT !.calls = @ + 1], body))

\* The route handler calls res.json(body).
ResJson(r, body) ==
    /\ http[r].stage = "open"
    /\ http[r].calls < MaxCalls
    /\ AfterCall(r, DoJson([http[r] EXCEPT !.calls = @ + 1], body))

\* The response is finished with neither send nor json (res.end(), a piped
\* stream): only the transport's 'finish' signal tells.
ResEnd(r) ==
    /\ http[r].stage = "open"
    /\ ~http[r].finished
    /\ http' = [http EXCEPT ![r] = Note([@ EXCEPT !.finished = TRUE], "end", "", Undef)]
    /\ raised' = "none"
    /\ console' = <<>>
    /\ UNCHANGED <<settled, cfg, call, hookCalls, aggregator, scheduler, posts, unhandled, lastBatch,
                   sendOutcome, flushes>>

\* ------------------------------------------------------ settling a log POST
\* .then((response) => { if (!response.ok) { console.error(...);
\*                       return response.text().then(console.error) } })
LogThen(outcome) ==
    CASE outcome = "ok" -> [state |-> "fulfilled", console |-> <<>>]
      [] outcome = "status500" ->
            [state |-> "fulfilled",
             console |-> <<"Failed to send log to Grafana. Status", "Response">>]
      [] outcome = "status500TextFails" ->
            [state |-> "rejected",
             console |-> <<"Failed to send log to Grafana. Status">>]
      [] outcome = "networkError" -> [state |-> "rejected", console |-> <<>>]

\* .catch((error) => { console.error x 3 })
LogCatch(p) ==
    IF p.state = "rejected"
    THEN [state |-> "fulfilled",
          console |-> p.console \o <<"Failed to send log to Grafana", "URL", "Error details">>]
    ELSE p

LogChain(outcome) == LogCatch(LogThen(outcome))

SettleLogPost(i, outcome) ==
    /\ i \in 1..Len(posts)
    /\ posts[i].sink = "logs"
    /\ LET chain == LogChain(outcome)
       IN /\ console' = chain.console
          /\ unhandled' = (unhandled \/ chain.state = "rejected")
    /\ posts' = RemoveAt(posts, i)
    /\ settled' = [settled EXCEPT ![posts[i].sink] = outcome]
    /\ UNCHANGED <<logger, cfg, call, hookCalls, aggregator, scheduler, lastBatch, sendOutcome, flushes>>

\* ------------------------------------------- Logger methods called directly
\* The methods below keep no state of their own; a run makes one such call,
\* and may pass what sanitize or sanitizeParams returned to it once more.
\* sanitize(obj) as its caller sees it: what it returns, what it raises and
\* what the argument holds afterwards.  clean() writes into the clone only.
SanitizeCall(obj) ==
    IF SanitizeThrows(obj)
    THEN [returned |-> Undef, threw |-> "SyntaxError", argument |-> obj]
    ELSE [returned |-> Sanitize(obj), threw |-> "none", argument |-> obj]

\* param.length > 50
LongParam == 50

\* typeof param === 'string' &&
\*   (param.toLowerCase().includes('password') || param.length > 50)
\* (a string is held as the sequence of its characters)
IsRedactedParam(param) ==
    param.t = "str" /\ (IncludesString(ToLowerCase(param.v), kPassword)
                           \/ Len(param.v) > LongParam)

\* '*****' among strings held as their characters
RedactedParam == Str(<<"*", "*", "*", "*", "*">>)

\* A sanitizeParams that masks a string by putting the marker in front of it.
SanitizeParamsPrefixed(params) ==
    IF ~Truthy(params) \/ params.t # "arr" THEN params
    ELSE Arr([i \in 1..Len(params.v) |->
                 IF IsRedactedParam(params.v[i])
                 THEN Str(RedactedParam.v \o params.v[i].v) ELSE params.v[i]])

\* sanitizeParams(params)
SanitizeParams(params) ==
    IF ~Truthy(params) \/ params.t # "arr" THEN params
    ELSE Arr([i \in 1..Len(params.v) |->
                 IF IsRedactedParam(params.v[i]) THEN RedactedParam ELSE params.v[i]])

\* A call that is not made on a response object.
Direct == [trace |-> <<>>, fetches |-> <<>>, console |-> <<>>, threw |-> "none",
           sent |-> "none"]

kRequest == <<"r", "e", "q", "u", "e", "s", "t">>
kResponse == <<"r", "e", "s", "p", "o", "n", "s", "e">>
kError == <<"e", "r", "r", "o", "r">>

\* statusCode >= 400 || error ? 'warn' : 'info'
FactoryLevel(statusCode, error) ==
    IF statusCode >= 400 \/ Truthy(error) THEN "warn" ELSE "info"

\* factoryLog: logData; error is Undef or the message of the Error passed.
FactoryLogData(requestBody, responseBody, statusCode, error) ==
    Obj(<< <<kRequest, requestBody>>,
           <<kResponse, responseBody>>,
           <<kStatus, Num(statusCode)>>,
           <<kError, error>> >>)

\* The route handler or a test calls logger.sanitize(obj).
CallSanitize(obj) ==
    /\ call.fn = "none"
    /\ LET r == SanitizeCall(obj)
       IN call' = [fn |-> "sanitize", arg |-> obj, argAfter |-> r.argument,
                   result |-> r.returned, threw |-> r.threw]
    /\ console' = <<>>
    /\ UNCHANGED <<logger, settled, cfg, hookCalls, aggregator, scheduler, posts,
                   unhandled, lastBatch, sendOutcome, flushes>>

\* dbLog calls this.sanitizeParams(params).
CallSanitizeParams(params) ==
    /\ call.fn = "none"
    /\ call' = [fn |-> "sanitizeParams", arg |-> params, result |-> SanitizeParams(params)]
    /\ console' = <<>>
    /\ UNCHANGED <<logger, settled, cfg, hookCalls, aggregator, scheduler, posts,
                   unhandled, lastBatch, sendOutcome, flushes>>

\* The caller passes what sanitize returned to sanitize once more.
SanitizeAgain ==
    /\ call.fn = "sanitize"
    /\ call.threw = "none"
    /\ "pass" \notin DOMAIN call
    /\ LET r == SanitizeCall(call.result)
       IN call' = [fn |-> "sanitize", arg |-> call.result, argAfter |-> r.argument,
                   result |-> r.returned, threw |-> r.threw, pass |-> 2]
    /\ console' = <<>>
    /\ UNCHANGED <<logger, settled, cfg, hookCalls, aggregator, scheduler, posts,
                   unhandled, lastBatch, sendOutcome, flushes>>

\* The caller passes what sanitizeParams returned to sanitizeParams once more.
SanitizeParamsAgain ==
    /\ call.fn = "sanitizeParams"
    /\ "pass" \notin DOMAIN call
    /\ call' = [fn |-> "sanitizeParams", arg |-> call.result,
                result |-> SanitizeParams(call.result), pass |-> 2]
    /\ console' = <<>>
    /\ UNCHANGED <<logger, settled, cfg, hookCalls, aggregator, scheduler, posts,
                   unhandled, lastBatch, sendOutcome, flushes>>

\* factoryLog(requestBody, responseBody, statusCode, error)
FactoryLog(requestBody, responseBody, statusCode, error) ==
    /\ call.fn = "none"
    /\ LET level == FactoryLevel(statusCode, error)
           m == Log(Direct, level, "factory",
                    FactoryLogData(requestBody, responseBody, statusCode, error))
       IN /\ call' = [fn |-> "factoryLog", statusCode |-> statusCode, error |-> error,
                      level |-> level, trace |-> m.trace, threw |-> m.threw]
          /\ posts' = posts \o m.fetches
          /\ console' = m.console
          /\ sendOutcome' = IF m.sent = "none" THEN sendOutcome ELSE m.sent
    /\ UNCHANGED <<logger, settled, cfg, hookCalls, aggregator, scheduler, unhandled,
                   lastBatch, flushes>>

\* ---------------------------------------------- inputs of the direct calls
kEmailKey == <<"e", "m", "a", "i", "l">>
kPasswordKey == <<"P", "a", "s", "s", "w", "o", "r", "d">>
kApiKeyKey == <<"a", "p", "i", "K", "e", "y">>
kUserTokenKey == <<"u", "s", "e", "r", "T", "o", "k", "e", "n">>
kAuthorizationKey == <<"A", "u", "t", "h", "o", "r", "i", "z", "a", "t", "i", "o", "n">>
kItemsKey == <<"i", "t", "e", "m", "s">>

SanitizeKeys == {kEmailKey, kPasswordKey, kApiKeyKey, kUserTokenKey, kAuthorizationKey,
                 kItemsKey}
SanitizeLeaves == {Str("a"), Redacted, Num(1), Bool(TRUE), Null, Undef}

\* { key: leaf }
FlatObjects == {Obj(<< <<k, v>> >>) : k \in SanitizeKeys, v \in SanitizeLeaves}

\* { key: { key: leaf } }, { key: [ { key: leaf }, leaf ] }, { a: leaf, b: leaf }
SanitizeInputs ==
    SanitizeLeaves
    \cup FlatObjects
    \cup {Obj(<< <<k, o>> >>) : k \in {kItemsKey, kPasswordKey}, o \in FlatObjects}
    \cup {Obj(<< <<kItemsKey, Arr(<<o, v>>)>> >>) :
            o \in {Obj(<< <<k, Str("a")>> >>) : k \in SanitizeKeys}, v \in SanitizeLeaves}
    \cup {Arr(<<o, Num(1)>>) : o \in FlatObjects}
    \cup {Obj(<< <<k1, v>>, <<k2, Str("a")>> >>) :
            k1 \in SanitizeKeys, k2 \in SanitizeKeys \ {kEmailKey}, v \in {Num(1), Undef}}

\* a string of n characters
Repeat(ch, n) == [i \in 1..n |-> ch]

ParamValues ==
    { Str(<<"a">>),
      Str(<<"s", "e", "c", "r", "e", "t", "p", "a", "s", "s", "w", "o", "r", "d">>),
      Str(<<"P", "A", "S", "S", "W", "O", "R", "D">>),
      Str(Repeat("x", LongParam)),
      Str(Repeat("x", LongParam + 1)),
      RedactedParam,
      Num(7),
      Null,
      Obj(<< <<kPassword, Str("a")>> >>) }

\* the arrays of at most MaxParams elements, and a params that is not passed
ParamInputs ==
    {Undef} \cup UNION {{Arr(q) : q \in [1..n -> ParamValues]} : n \in 0..MaxParams}

FactoryStatusCodes == {200, 404, 500}
FactoryErrors == {Undef, Str("fetch failed")}

\* ------------------------------------------------------------ specification
\* config.js: which of the settings are there.
Configs ==
    { c \in [ loggingPresent : BOOLEAN, loggingUrl : BOOLEAN, loggingApiKey : BOOLEAN,
              loggingSource : {"jwt-pizza-service"},
              metricsUrl : BOOLEAN, metricsApiKeyPresent : BOOLEAN,
              metricsApiKey : ApiKeys \cup {<<>>},
              metricsSource : {"jwt-pizza-service"} ] :
        /\ ~c.loggingPresent => (~c.loggingUrl /\ ~c.loggingApiKey)
        /\ c.metricsApiKeyPresent <=> c.metricsApiKey # <<>> }

LoggingConfigured(c) == c.loggingPresent /\ c.loggingUrl /\ c.loggingApiKey
MetricsConfigured(c) == c.metricsUrl /\ c.metricsApiKey = <<"k">>

\* No hook has been called and no Logger method has been called directly.
\* requests, authSuccess, authFailure, sold, failed, latencies: calls counted;
\* revenue: the prices passed with successful purchases, summed; loggedIn: the
\* ids whose latest event is a login; endpointSamples, pizzaSamples: every
\* sample pushed to endpointLatencies and to pizzaCreationLatencies, in order.
NoHookCalls ==
    [requests |-> [m \in Methods |-> 0], authSuccess |-> 0, authFailure |-> 0,
     sold |-> 0, failed |-> 0, revenue |-> 0, latencies |-> 0, loggedIn |-> {},
     endpointSamples |-> <<>>, pizzaSamples |-> <<>>]

NoCall == [fn |-> "none"]

\* The process after its modules are loaded.
Loaded ==
    /\ requests = <<>>
    /\ endpointLatencies = <<>>
    /\ activeUsers = {}
    /\ authSuccessCount = 0
    /\ authFailureCount = 0
    /\ pizzaSoldCount = 0
    /\ pizzaCreationFailures = 0
    /\ pizzaRevenue = 0
    /\ pizzaCreationLatencies = <<>>
    /\ finishListeners = <<>>
    /\ metricsTimer = 0
    /\ timers = {}
    /\ timerSeq = 0
    /\ posts = <<>>
    /\ console = <<>>
    /\ unhandled = FALSE
    /\ lastBatch = <<>>
    /\ sendOutcome = "none"
    /\ flushes = 0
    /\ http = [r \in RequestIds |-> FreshResponse]
    /\ raised = "none"
    /\ settled = [metrics |-> "none", logs |-> "none"]
    /\ hookCalls = NoHookCalls
    /\ call = NoCall

Tick ==
    \E t \in timers, load \in LoadAvgs, cpus \in CpuCounts,
       total \in TotalMems, free \in FreeMems :
       FlushAndReport(t, GetCpuUsagePercentage(load, cpus),
                      GetMemoryUsagePercentage(total, free))

\* The metrics aggregator, its scheduler and its flush, with both transports
\* configured (the flush with a setting missing: SpecDelivery, SpecRequests,
\* SpecScheduled, SpecTrim).
Init ==
    /\ cfg \in {c \in Configs : LoggingConfigured(c) /\ MetricsConfigured(c)}
    /\ Loaded

Next ==
    \/ \E m \in Methods : RequestTracker(m)
    \/ \E i \in 1..Len(finishListeners), l \in Latencies : ResponseFinish(i, l)
    \/ \E ok \in BOOLEAN : TrackAuthAttempt(ok)
    \/ \E u \in Users : TrackActiveUser(u)
    \/ \E u \in Users : TrackUserLogout(u)
    \/ \E ok \in BOOLEAN, l \in OptLatencies, p \in Prices : TrackPizzaPurchase(ok, l, p)
    \/ \E p \in Periods : StartMetricsReporting(p)
    \/ Tick

Spec == Init /\ [][Next]_vars

\* The HTTP log interceptor; config.logging is complete, lacks its url or its
\* api key, or is missing.
InitHttp ==
    /\ cfg \in {c \in Configs : MetricsConfigured(c)}
    /\ Loaded

NextHttp ==
    \/ \E r \in DOMAIN http, req \in HttpRequests : HttpLogger(r, req)
    \/ \E r \in DOMAIN http, code \in StatusCodes : SetStatus(r, code)
    \/ \E r \in DOMAIN http, body \in ResponseBodies : ResSend(r, body)
    \/ \E r \in DOMAIN http, body \in ResponseBodies : ResJson(r, body)
    \/ \E r \in DOMAIN http : ResEnd(r)

SpecHttp == InitHttp /\ [][NextHttp]_vars

\* The interceptor with config.logging complete.
InitLogged ==
    /\ cfg \in {c \in Configs : MetricsConfigured(c) /\ LoggingConfigured(c)}
    /\ Loaded

SpecLogged == InitLogged /\ [][NextHttp]_vars

\* Both transports: the flush, one request answered through res.json, and the
\* settling of the POSTs, with every configuration that has a config.logging.
InitDelivery ==
    /\ cfg \in {c \in Configs : c.loggingPresent}
    /\ Loaded

NextDelivery ==
    \/ \E p \in Periods : StartMetricsReporting(p)
    \/ Tick
    \/ \E i \in 1..Len(posts), o \in Outcomes : SettleMetricsPost(i, o)
    \/ \E r \in DOMAIN http : HttpLogger(r, NoRequest)
    \/ \E r \in DOMAIN http : ResJson(r, Obj(<< <<kToken, Str("t1")>> >>))
    \/ \E i \in 1..Len(posts), o \in Outcomes : SettleLogPost(i, o)

SpecDelivery == InitDelivery /\ [][NextDelivery]_vars

\* Both transports configured, beside a hook of the application.
InitTransport ==
    /\ cfg \in {c \in Configs : LoggingConfigured(c) /\ MetricsConfigured(c)}
    /\ Loaded

NextTransport ==
    \/ TrackAuthAttempt(TRUE)
    \/ NextDelivery

SpecTransport == InitTransport /\ [][NextTransport]_vars

\* The Logger's methods called directly; the log transport is switched off by
\* a missing config.logging.url, so no POST is pending.
InitCalls ==
    /\ cfg \in {c \in Configs : /\ MetricsConfigured(c)
                                /\ c.loggingPresent /\ ~c.loggingUrl /\ c.loggingApiKey}
    /\ Loaded

NextCalls ==
    \/ \E obj \in SanitizeInputs : CallSanitize(obj)
    \/ \E params \in ParamInputs : CallSanitizeParams(params)
    \/ SanitizeAgain
    \/ SanitizeParamsAgain
    \/ \E code \in FactoryStatusCodes, error \in FactoryErrors :
          FactoryLog(Obj(<< <<kItemsKey, Arr(<<Num(1)>>)>> >>),
                     Obj(<< <<kUserTokenKey, Str("t1")>> >>), code, error)

SpecCalls == InitCalls /\ [][NextCalls]_vars

\* A process that has been up for a while: n GET requests have finished and
\* one is still open, as many pizzas were sold (each with a latency, none with
\* a price), the latency arrays are at or next to the two limits, and the
\* metrics api key and the metrics url are each set or missing.
Backlogs == {TrimThreshold, TrimThreshold + 1, LatencyCapacity - 1, LatencyCapacity}

Served(n, k) ==
    /\ requests = << [method |-> "GET", count |-> n + 1] >>
    /\ endpointLatencies = [i \in 1..n |-> [endpoint |-> "GET", latency |-> i]]
    /\ finishListeners = << "GET" >>
    /\ pizzaSoldCount = k
    /\ pizzaCreationLatencies = [i \in 1..k |-> i]
    /\ hookCalls = [NoHookCalls EXCEPT !.requests["GET"] = n + 1, !.sold = k,
                                       !.latencies = k,
                                       !.endpointSamples = endpointLatencies,
                                       !.pizzaSamples = pizzaCreationLatencies]

InitTrim ==
    /\ cfg \in {c \in Configs :
                  /\ LoggingConfigured(c)
                  /\ c.metricsApiKey \in {<<"k">>, <<>>}}
    /\ \E n \in Backlogs : Served(n, n)
    /\ activeUsers = {}
    /\ authSuccessCount = 0
    /\ authFailureCount = 0
    /\ pizzaCreationFailures = 0
    /\ pizzaRevenue = 0
    /\ metricsTimer = 0
    /\ timers = {}
    /\ timerSeq = 0
    /\ posts = <<>>
    /\ console = <<>>
    /\ unhandled = FALSE
    /\ lastBatch = <<>>
    /\ sendOutcome = "none"
    /\ flushes = 0
    /\ http = [r \in RequestIds |-> FreshResponse]
    /\ raised = "none"
    /\ settled = [metrics |-> "none", logs |-> "none"]
    /\ call = NoCall

\* One more pizza is sold while the purchases made are at a limit.
PurchaseAtLimit(latency) ==
    /\ hookCalls.latencies \in Backlogs
    /\ PizzaPurchase(TRUE, <<latency>>, Absent)

NextTrim ==
    \/ \E i \in 1..Len(finishListeners), l \in Latencies : ResponseFinish(i, l)
    \/ \E l \in Latencies : PurchaseAtLimit(l)
    \/ \E p \in Periods : StartMetricsReporting(p)
    \/ Tick

SpecTrim == InitTrim /\ [][NextTrim]_vars

\* Requests and flushes alone, under either of two config.metrics.source
\* labels; the metrics api key is set or missing.
MetricsSources == {"jwt-pizza-service", "jwt-pizza-service-dev"}

InitRequests ==
    /\ cfg \in {[c EXCEPT !.metricsSource = s] :
                  c \in {k \in Configs : /\ LoggingConfigured(k)
                                         /\ k.metricsUrl
                                         /\ k.metricsApiKey \in {<<"k">>, <<>>}},
                  s \in MetricsSources}
    /\ Loaded

NextRequests ==
    \/ \E m \in Methods : RequestTracker(m)
    \/ \E i \in 1..Len(finishListeners), l \in Latencies : ResponseFinish(i, l)
    \/ \E p \in Periods : StartMetricsReporting(p)
    \/ Tick

SpecRequests == InitRequests /\ [][NextRequests]_vars

\* The scheduler beside one hook.  setInterval runs the callback of an armed
\* timer every period: a tick that stays possible is taken.
NextScheduled ==
    \/ \E ok \in BOOLEAN : TrackAuthAttempt(ok)
    \/ \E p \in Periods : StartMetricsReporting(p)
    \/ Tick

SpecScheduled == InitRequests /\ [][NextScheduled]_vars /\ WF_vars(Tick)

\* Two requests in the pipeline at once, each with its own request data,
\* status and response body; both transports configured.
ConcurrentIds == {1, 2}

RequestOf(r) ==
    IF r = 1
    THEN CHOOSE q \in HttpRequests : q.method = "PUT"
    ELSE CHOOSE q \in HttpRequests : q.authorization = Str("Bearer t1")

StatusOf(r) == IF r = 1 THEN 400 ELSE 500

BodyOf(r) == IF r = 1 THEN Str("unauthorized") ELSE Obj(<< <<kToken, Str("t1")>> >>)

InitConcurrent ==
    /\ cfg \in {c \in Configs : LoggingConfigured(c) /\ MetricsConfigured(c)}
    /\ http = [r \in ConcurrentIds |-> FreshResponse]
    /\ requests = <<>>
    /\ endpointLatencies = <<>>
    /\ activeUsers = {}
    /\ authSuccessCount = 0
    /\ authFailureCount = 0
    /\ pizzaSoldCount = 0
    /\ pizzaCreationFailures = 0
    /\ pizzaRevenue = 0
    /\ pizzaCreationLatencies = <<>>
    /\ finishListeners = <<>>
    /\ metricsTimer = 0
    /\ timers = {}
    /\ timerSeq = 0
    /\ posts = <<>>
    /\ console = <<>>
    /\ unhandled = FALSE
    /\ lastBatch = <<>>
    /\ sendOutcome = "none"
    /\ flushes = 0
    /\ raised = "none"
    /\ settled = [metrics |-> "none", logs |-> "none"]
    /\ hookCalls = NoHookCalls
    /\ call = NoCall

NextConcurrent ==
    \/ \E r \in DOMAIN http : HttpLogger(r, RequestOf(r))
    \/ \E r \in DOMAIN http : SetStatus(r, StatusOf(r))
    \/ \E r \in DOMAIN http : ResSend(r, BodyOf(r))
    \/ \E r \in DOMAIN http : ResJson(r, BodyOf(r))

SpecConcurrent == InitConcurrent /\ [][NextConcurrent]_vars

\* ------------------------------------------------------- reading a batch
\* The values a batch reports under a name and an attribute (<<>> = none).
ReportedValues(batch, name, attribute) ==
    {batch[i].value : i \in {j \in 1..Len(batch) :
        /\ batch[j].name = name
        /\ \/ attribute = <<>> /\ Len(batch[j].attributes) = 1
           \/ attribute # <<>> /\ batch[j].attributes[1] = attribute}}

\* The cumulative series of a flush: name and distinguishing attribute.
CumulativeSeries ==
    { <<"pizza_sold_total", <<>> >>,
      <<"pizza_creation_failures_total", <<>> >>,
      <<"pizza_revenue_total", <<>> >>,
      <<"auth_attempts_total", <<"status", "success">> >>,
      <<"auth_attempts_total", <<"status", "failure">> >>,
      <<"http_requests_total", <<"method", "ALL">> >> }
    \cup { <<"http_requests_total", <<"method", requests[i].method>> >> :
             i \in 1..Len(requests) }

\* Every series of the set is in the new batch, once, and none of them is
\* below what the batch before it reported.
ReportsAndNeverDrops(series) ==
    \A k \in series :
        /\ Cardinality(ReportedValues(lastBatch', k[1], k[2])) = 1
        /\ \A new \in ReportedValues(lastBatch', k[1], k[2]) :
             \A old \in ReportedValues(lastBatch, k[1], k[2]) : new >= old

\* ------------------------------------------------------------------ claims
\* C1: a flush cycle only reads the cumulative counters: requests[m] for
\* every method m, authSuccessCount, authFailureCount, pizzaSoldCount,
\* pizzaCreationFailures and pizzaRevenue are the same after every timer tick
\* as before it.
C1_FlushOnlyReadsCounters ==
    [][flushes' # flushes => counters' = counters]_vars

C1_Witness ==
    /\ flushes >= 2
    /\ pizzaSoldCount > 0
    /\ Len(requests) > 0
    /\ ReportedValues(lastBatch, "pizza_sold_total", <<>>) = {pizzaSoldCount}

\* C2: every flush reports each cumulative counter, and no reported value is
\* below the value the flush before it reported.
C2_ReportedNeverDecreases ==
    [][flushes' # flushes => ReportsAndNeverDrops(CumulativeSeries)]_vars

\* C2 without pizza_revenue_total: the part of the statement the code keeps.
C2_CountsNeverDecrease ==
    [][flushes' # flushes =>
         ReportsAndNeverDrops(CumulativeSeries \ { <<"pizza_revenue_total", <<>> >> })]_vars

\* C10: after any sequence of startMetricsReporting calls at most one interval
\* timer is armed, and it is the one metricsTimer names: a restart cancels the
\* armed timer before arming the next, so a period elapses into one flush.
C10_OneActiveTimer ==
    /\ Cardinality(timers) <= 1
    /\ timers = IF metricsTimer = 0 THEN {} ELSE {metricsTimer}

C10_Witness ==
    /\ timerSeq >= 2
    /\ Cardinality(timers) = 1
    /\ flushes >= 1

\* ------------------------------------------------------- reading a trace
EventsOf(trace, evs) == {i \in 1..Len(trace) : trace[i].ev \in evs}

LogCount(r) == Cardinality(EventsOf(http[r].trace, {"log"}))

\* The wrapper entered at i called the method it had captured, next and with
\* the body it was given (only the building of the log comes in between).
WrapperCallsOriginal(trace, i, original) ==
    \E j \in (i + 1)..Len(trace) :
        /\ trace[j].ev = original
        /\ trace[j].body = trace[i].body
        /\ \A k \in (i + 1)..(j - 1) : trace[k].ev = "log"

EveryWrapperCallsOriginal(trace) ==
    /\ \A i \in EventsOf(trace, {"wrappedSend"}) :
          WrapperCallsOriginal(trace, i, "originalSend")
    /\ \A i \in EventsOf(trace, {"wrappedJson"}) :
          WrapperCallsOriginal(trace, i, "originalJson")

LogErrors == {"TypeError", "SyntaxError"}

\* C3: for one request, response logging fires exactly once, however many
\* response-finalizing paths fire for the response: at most one 'http' log
\* event per request.
C3_LogsAtMostOnce == \A r \in DOMAIN http : LogCount(r) <= 1

\* C4: every request whose response is finalized has produced an 'http' log
\* event, whichever path finalized it: res.send, res.json, or the end of the
\* response with neither.  (The log is built inside the finalizing call, so
\* "eventually" is "by the end of that step".)
C4_FinishedIsLogged == \A r \in DOMAIN http : http[r].finished => LogCount(r) >= 1

\* C4 for the responses that res.send or res.json finalized.
C4_SentIsLogged ==
    \A r \in DOMAIN http :
        (http[r].finished /\ EventsOf(http[r].trace, {"originalSend"}) # {})
            => LogCount(r) >= 1

\* C5: the log event of a response is built and handed to the transport only
\* after the original res.send / res.json of that request was invoked.
C5_LogAfterOriginal ==
    \A r \in DOMAIN http :
        \A i \in EventsOf(http[r].trace, {"log"}) :
            \E j \in 1..(i - 1) : http[r].trace[j].ev \in {"originalSend", "originalJson"}

\* C6: a failure of log construction inside the wrapped res.send / res.json
\* stays inside the wrapper: the original is still invoked with the original
\* body and nothing is raised into the route handler.
C6_LogFailureContained ==
    /\ raised \notin LogErrors
    /\ \A r \in DOMAIN http : EveryWrapperCallsOriginal(http[r].trace)

\* C7: httpLogger calls next() exactly once, before it returns; every call of
\* a wrapper invokes the captured original once, with the same body; the
\* interceptor never writes res.statusCode (it changes only in a step that
\* runs no interceptor code).
C7_TransparentInterceptor ==
    [][ /\ \A r \in DOMAIN http :
            /\ http'[r].stage = "open" =>
                  /\ Cardinality(EventsOf(http'[r].trace, {"next"})) = 1
                  /\ http'[r].trace[1].ev = "next"
            /\ EveryWrapperCallsOriginal(http'[r].trace)
            /\ http'[r].statusCode # http[r].statusCode => http'[r].trace = http[r].trace
      ]_vars

\* C7 with config.logging in place, where log construction cannot fail.
C7_TransparentWhenLogBuilds ==
    [][ cfg.loggingPresent =>
        \A r \in DOMAIN http :
            /\ http'[r].stage = "open" =>
                  /\ Cardinality(EventsOf(http'[r].trace, {"next"})) = 1
                  /\ http'[r].trace[1].ev = "next"
            /\ EveryWrapperCallsOriginal(http'[r].trace)
            /\ http'[r].statusCode # http[r].statusCode => http'[r].trace = http[r].trace
      ]_vars

\* ------------------------------------------------------------- transports
\* The step settled the POST at index i of sink with outcome.
Settles(i, sink, outcome) ==
    /\ i \in 1..Len(posts)
    /\ posts[i].sink = sink
    /\ posts' = RemoveAt(posts, i)
    /\ settled' = [settled EXCEPT ![sink] = outcome]

\* C8: for both transports, a POST is in flight only after its send call has
\* returned without raising; when the collector answers 500 or the network
\* call fails, the failure ends in console output only, no rejection stays
\* unhandled, and everything but the pending POSTs and the console is as a
\* successful delivery leaves it.
C8_DeliveryFailureIsLocal ==
    [][ /\ Len(posts') > Len(posts) => sendOutcome' = "returned"
        /\ Len(posts') < Len(posts) =>
              /\ ~unhandled'
              /\ UNCHANGED <<cfg, call, hookCalls, aggregator, scheduler, logger, lastBatch,
                             sendOutcome, flushes>>
              /\ \E i \in 1..Len(posts), sink \in {"metrics", "logs"}, o \in Outcomes :
                    /\ Settles(i, sink, o)
                    /\ (o = "ok") <=> (console' = <<>>)
      ]_vars

C8_Witness ==
    /\ settled.metrics = "status500"
    /\ settled.logs = "networkError"
    /\ ~unhandled
    /\ authSuccessCount > 0
    /\ posts = <<>>

\* C9: when the collector url or the api key of a transport is missing, its
\* send call issues no request, prints a diagnostic and returns normally;
\* for the metrics transport (config.metrics) ...
C9_MetricsSendIsNoOp ==
    (flushes' # flushes /\ (~cfg.metricsUrl \/ ~cfg.metricsApiKeyPresent)) =>
        /\ posts' = posts
        /\ sendOutcome' = "returned"
        /\ console' # <<>>

\* ... and for the log transport (config.logging).
C9_LogSendIsNoOp ==
    \A r \in DOMAIN http :
        (LogCount(r)' # LogCount(r) /\ (~cfg.loggingUrl \/ ~cfg.loggingApiKey)) =>
            /\ posts' = posts
            /\ sendOutcome' = "returned"
            /\ raised' \notin LogErrors
            /\ \E i \in 1..Len(console') : console'[i] = "Logging not configured"

C9_UnconfiguredSendIsNoOp == [][C9_MetricsSendIsNoOp /\ C9_LogSendIsNoOp]_vars

\* C9 for the log transport alone.
C9_LogTransportNoOp == [][C9_LogSendIsNoOp]_vars

\* ---------------------------------------------------- hooks and the batch
\* The samples of a batch under a name and an attribute (<<>> = none).
SamplesOf(batch, name, attribute) ==
    {j \in 1..Len(batch) :
        /\ batch[j].name = name
        /\ \/ attribute = <<>> /\ Len(batch[j].attributes) = 1
           \/ attribute # <<>> /\ batch[j].attributes[1] = attribute}

\* The batch holds exactly one sample under the name and attribute, of this
\* type and value.
ReportsOnce(batch, name, attribute, type, value) ==
    /\ Cardinality(SamplesOf(batch, name, attribute)) = 1
    /\ \A j \in SamplesOf(batch, name, attribute) :
          batch[j].value = value /\ batch[j].type = type

\* The sum of the http_requests_total samples of a batch other than ALL.
PerMethodSum(batch) ==
    SumSeq([j \in 1..Len(batch) |->
              IF /\ batch[j].name = "http_requests_total"
                 /\ batch[j].attributes[1] # <<"method", "ALL">>
              THEN batch[j].value ELSE 0])

\* C11: a flush emits one http_requests_total sample for each method with a
\* bucket, its value the number of requestTracker calls with that method since
\* the process started, and exactly one method=ALL sample whose value is the
\* sum of the per-method samples of the batch; no call is lost.
C11_RequestsPerMethodAndAll ==
    [][flushes' # flushes =>
         /\ \A m \in Methods :
               IF hookCalls.requests[m] > 0
               THEN ReportsOnce(lastBatch', "http_requests_total", <<"method", m>>,
                                "sum", hookCalls.requests[m])
               ELSE SamplesOf(lastBatch', "http_requests_total", <<"method", m>>) = {}
         /\ ReportsOnce(lastBatch', "http_requests_total", <<"method", "ALL">>,
                        "sum", PerMethodSum(lastBatch'))
      ]_vars

C11_Witness ==
    /\ flushes >= 1
    /\ hookCalls.requests["GET"] = 1 /\ hookCalls.requests["POST"] = 1
    /\ ReportsOnce(lastBatch, "http_requests_total", <<"method", "GET">>, "sum", 1)
    /\ ReportsOnce(lastBatch, "http_requests_total", <<"method", "POST">>, "sum", 1)
    /\ ReportsOnce(lastBatch, "http_requests_total", <<"method", "ALL">>, "sum", 2)

\* C12: trackAuthAttempt(true) adds one to authSuccessCount only and
\* trackAuthAttempt(false) adds one to authFailureCount only; a flush reports
\* auth_attempts_total{status=success} and {status=failure} as sum samples
\* equal to the successful and the failed attempts since the process started.
C12_AuthAttemptsCounted ==
    [][ /\ hookCalls'.authSuccess = hookCalls.authSuccess + 1 =>
              /\ authSuccessCount' = authSuccessCount + 1
              /\ UNCHANGED <<requests, endpointLatencies, activeUsers, authFailureCount,
                             pizzaSoldCount, pizzaCreationFailures, pizzaRevenue,
                             pizzaCreationLatencies>>
        /\ hookCalls'.authFailure = hookCalls.authFailure + 1 =>
              /\ authFailureCount' = authFailureCount + 1
              /\ UNCHANGED <<requests, endpointLatencies, activeUsers, authSuccessCount,
                             pizzaSoldCount, pizzaCreationFailures, pizzaRevenue,
                             pizzaCreationLatencies>>
        /\ flushes' # flushes =>
              /\ ReportsOnce(lastBatch', "auth_attempts_total", <<"status", "success">>,
                             "sum", hookCalls.authSuccess)
              /\ ReportsOnce(lastBatch', "auth_attempts_total", <<"status", "failure">>,
                             "sum", hookCalls.authFailure)
      ]_vars

C12_Witness ==
    /\ flushes >= 1
    /\ hookCalls.authSuccess = 1 /\ hookCalls.authFailure = 1
    /\ ReportsOnce(lastBatch, "auth_attempts_total", <<"status", "success">>, "sum", 1)
    /\ ReportsOnce(lastBatch, "auth_attempts_total", <<"status", "failure">>, "sum", 1)

\* C13: a successful trackPizzaPurchase adds one to pizzaSoldCount and the
\* price (0 when none is passed) to pizzaRevenue and leaves
\* pizzaCreationFailures; a failed one adds one to pizzaCreationFailures and
\* leaves pizzaSoldCount and pizzaRevenue, price or not; either appends the
\* latency to pizzaCreationLatencies exactly when one is passed.  A flush
\* reports the three totals.
C13_PizzaPurchaseCounted ==
    [][ /\ hookCalls'.sold = hookCalls.sold + 1 =>
              /\ pizzaSoldCount' = pizzaSoldCount + 1
              /\ pizzaRevenue' - pizzaRevenue = hookCalls'.revenue - hookCalls.revenue
              /\ pizzaCreationFailures' = pizzaCreationFailures
        /\ hookCalls'.failed = hookCalls.failed + 1 =>
              /\ pizzaCreationFailures' = pizzaCreationFailures + 1
              /\ pizzaSoldCount' = pizzaSoldCount
              /\ pizzaRevenue' = pizzaRevenue
        /\ (hookCalls'.sold # hookCalls.sold \/ hookCalls'.failed # hookCalls.failed) =>
              IF hookCalls'.latencies = hookCalls.latencies
              THEN pizzaCreationLatencies' = pizzaCreationLatencies
              ELSE /\ Len(pizzaCreationLatencies') = Len(pizzaCreationLatencies) + 1
                   /\ SubSeq(pizzaCreationLatencies', 1, Len(pizzaCreationLatencies))
                        = pizzaCreationLatencies
        /\ flushes' # flushes =>
              /\ ReportsOnce(lastBatch', "pizza_sold_total", <<>>, "sum", hookCalls.sold)
              /\ ReportsOnce(lastBatch', "pizza_creation_failures_total", <<>>, "sum",
                             hookCalls.failed)
              /\ ReportsOnce(lastBatch', "pizza_revenue_total", <<>>, "sum",
                             hookCalls.revenue)
      ]_vars

C13_Witness ==
    /\ flushes >= 1
    /\ hookCalls.sold = 1 /\ hookCalls.failed = 1 /\ hookCalls.latencies = 1
    /\ ReportsOnce(lastBatch, "pizza_sold_total", <<>>, "sum", 1)
    /\ ReportsOnce(lastBatch, "pizza_creation_failures_total", <<>>, "sum", 1)
    /\ ReportsOnce(lastBatch, "pizza_revenue_total", <<>>, "sum", 2)
    /\ Len(pizzaCreationLatencies) = 1

\* C14: the active users are a set: the active_users gauge of a flush is the
\* number of distinct ids whose latest event is a login; a login of an id
\* already in counts once, a logout of an id not in changes nothing, and an id
\* that logged in and then out is not counted.
C14_ActiveUsersIsASet ==
    [][ /\ activeUsers' = hookCalls'.loggedIn
        /\ flushes' # flushes =>
              ReportsOnce(lastBatch', "active_users", <<>>, "gauge",
                          Cardinality(hookCalls.loggedIn))
      ]_vars

C14_Witness ==
    /\ flushes >= 2
    /\ hookCalls.loggedIn = {"u2"}
    /\ activeUsers = {"u2"}
    /\ ReportsOnce(lastBatch, "active_users", <<>>, "gauge", 1)

\* ------------------------------------------------------ sanitizing a value
\* The lowercase form of the key contains one of the four words.
NamesSecret(key) ==
    \E word \in {kPassword, kToken, kApikey, kAuthorization} :
        IncludesString(ToLowerCase(key), word)

\* A value of strings, numbers, booleans, null, arrays and objects.
RECURSIVE JsonCompatible(_)
JsonCompatible(x) ==
    CASE x.t = "undef" -> FALSE
      [] x.t = "obj" -> \A i \in 1..Len(x.v) : JsonCompatible(x.v[i][2])
      [] x.t = "arr" -> \A i \in 1..Len(x.v) : JsonCompatible(x.v[i])
      [] OTHER -> TRUE

\* out is in with the value at every secret key replaced by the marker, at
\* any depth, and everything else as it is.
RECURSIVE RedactedCopy(_, _)
RedactedCopy(in, out) ==
    CASE in.t = "obj" ->
            /\ out.t = "obj"
            /\ Len(out.v) = Len(in.v)
            /\ \A i \in 1..Len(in.v) :
                  /\ out.v[i][1] = in.v[i][1]
                  /\ IF NamesSecret(in.v[i][1]) THEN out.v[i][2] = Str("*****")
                     ELSE RedactedCopy(in.v[i][2], out.v[i][2])
      [] in.t = "arr" ->
            /\ out.t = "arr"
            /\ Len(out.v) = Len(in.v)
            /\ \A i \in 1..Len(in.v) : RedactedCopy(in.v[i], out.v[i])
      [] OTHER -> out = in

\* C15: for a nested structure of objects, arrays and JSON primitives,
\* sanitize returns a copy in which the value at every key whose lowercase
\* form contains 'password', 'token', 'apikey' or 'authorization' is '*****'
\* at any depth, arrays included, every other key and leaf is the input's, and
\* the input is left as it was.
C15_SanitizeRedactsACopy ==
    (call.fn = "sanitize" /\ JsonCompatible(call.arg)) =>
        /\ call.threw = "none"
        /\ RedactedCopy(call.arg, call.result)
        /\ call.argAfter = call.arg

C15_Witness ==
    /\ call.fn = "sanitize"
    /\ call.arg = Obj(<< <<kItemsKey,
                           Arr(<< Obj(<< <<kPasswordKey, Str("a")>> >>), Null >>)>> >>)
    /\ call.result = Obj(<< <<kItemsKey,
                              Arr(<< Obj(<< <<kPasswordKey, Str("*****")>> >>), Null >>)>> >>)
    /\ call.argAfter = call.arg

\* What sanitize does with undefined, which is no JSON value: the copy is the
\* redacted copy of what JSON.stringify keeps (an undefined member is left
\* out, an undefined array element becomes null), and sanitize(undefined)
\* raises.
C15_CopyOfWhatJsonKeeps ==
    call.fn = "sanitize" =>
        IF call.arg = Undef THEN call.threw = "SyntaxError"
        ELSE /\ call.threw = "none"
             /\ RedactedCopy(Serialised(call.arg), call.result)
             /\ call.argAfter = call.arg

\* a string whose lowercase form contains 'password'
IsPasswordLike(param) ==
    param.t = "str" /\ IncludesString(ToLowerCase(param.v), kPassword)

\* the result has the length and order of the params, with the marker at the
\* positions picked out and the element itself everywhere else
ReplacesExactly(params, result, picked) ==
    /\ result.t = "arr"
    /\ Len(result.v) = Len(params.v)
    /\ \A i \in 1..Len(params.v) :
          result.v[i] = IF i \in picked THEN Str(<<"*", "*", "*", "*", "*">>)
                        ELSE params.v[i]

\* the positions of the elements with 'password' in them
PasswordLike(params) == {i \in 1..Len(params.v) : IsPasswordLike(params.v[i])}

\* the positions of the strings of more than 50 characters
Long(params) ==
    {i \in 1..Len(params.v) : params.v[i].t = "str" /\ Len(params.v[i].v) > LongParam}

\* C16: sanitizeParams returns a sequence of the same length and order in
\* which an element is '*****' if and only if it is a string whose lowercase
\* form contains 'password'; every other element, non-strings and strings of
\* any length included, is returned unchanged.
C16_OnlyPasswordParamsRedacted ==
    (call.fn = "sanitizeParams" /\ call.arg.t = "arr") =>
        ReplacesExactly(call.arg, call.result, PasswordLike(call.arg))

\* C16 for params whose strings have at most 50 characters.
C16_ShortParamsAsStated ==
    (call.fn = "sanitizeParams" /\ call.arg.t = "arr" /\ Long(call.arg) = {}) =>
        ReplacesExactly(call.arg, call.result, PasswordLike(call.arg))

\* What the code does: 'password' or more than 50 characters.
C16_PasswordOrLongParamsRedacted ==
    (call.fn = "sanitizeParams" /\ call.arg.t = "arr") =>
        ReplacesExactly(call.arg, call.result, PasswordLike(call.arg) \cup Long(call.arg))

\* C17: every log call site that derives a level from a status code uses the
\* mapping of statusToLogLevel: factoryLog emits for a status code the level
\* httpLogger emits for it (>= 500 error, 400..499 warn, else info).
C17_FactoryLevelFollowsStatus ==
    (call.fn = "factoryLog" /\ call.error = Undef) =>
        /\ call.level = StatusToLogLevel(call.statusCode)
        /\ \A i \in EventsOf(call.trace, {"log"}) :
              call.trace[i].level = StatusToLogLevel(call.statusCode)

\* C17 at the httpLogger call site.
C17_HttpLevelFollowsStatus ==
    \A r \in DOMAIN http :
        \A i \in EventsOf(http[r].trace, {"log"}) :
            http[r].trace[i].level = StatusToLogLevel(http[r].statusCode)

\* ------------------------------------------------------ the latency arrays
\* What a flush is to leave of a latency array.
TrimmedAsStated(before, after) ==
    /\ Len(after) <= TrimThreshold
    /\ Len(before) <= TrimThreshold => after = before
    /\ Len(before) > TrimThreshold =>
          /\ Len(after) = TrimKeep
          /\ after = SubSeq(before, Len(before) - TrimKeep + 1, Len(before))

\* C18: the endpoint and the pizza latency arrays never hold more than 1000
\* samples; right after every flush each holds at most 100: a flush leaves an
\* array of at most 100 samples as it is and replaces a longer one by its
\* last 50.
C18_LatenciesBounded ==
    [][ /\ Len(endpointLatencies') <= LatencyCapacity
        /\ Len(pizzaCreationLatencies') <= LatencyCapacity
        /\ flushes' # flushes =>
              /\ TrimmedAsStated(endpointLatencies, endpointLatencies')
              /\ TrimmedAsStated(pizzaCreationLatencies, pizzaCreationLatencies')
      ]_vars

\* C18 for the flushes whose send returned.
C18_BoundedWhenSendReturns ==
    [][ /\ Len(endpointLatencies') <= LatencyCapacity
        /\ Len(pizzaCreationLatencies') <= LatencyCapacity
        /\ (flushes' # flushes /\ sendOutcome' = "returned") =>
              /\ TrimmedAsStated(endpointLatencies, endpointLatencies')
              /\ TrimmedAsStated(pizzaCreationLatencies, pizzaCreationLatencies')
      ]_vars

\* What a flush is to report of a latency array: a gauge with the mean of the
\* samples held when there are any, no sample when there are none.
ReportsMean(batch, name, values) ==
    IF Len(values) = 0 THEN SamplesOf(batch, name, <<>>) = {}
    ELSE /\ Cardinality(SamplesOf(batch, name, <<>>)) = 1
         /\ \A j \in SamplesOf(batch, name, <<>>) :
               /\ batch[j].type = "gauge"
               /\ batch[j].value * Len(values) = SumSeq(values)

\* C19: a flush emits an endpoint_latency_ms gauge exactly when the endpoint
\* latency array is not empty, with the arithmetic mean of the samples held,
\* and likewise pizza_creation_latency_ms for the pizza latency array; an
\* array whose samples are all 0 yields a sample too.
C19_MeanLatencyReported ==
    [][flushes' # flushes =>
         /\ ReportsMean(lastBatch', "endpoint_latency_ms",
                        LatencyValues(endpointLatencies, TRUE))
         /\ ReportsMean(lastBatch', "pizza_creation_latency_ms",
                        LatencyValues(pizzaCreationLatencies, FALSE))
      ]_vars

\* C19 for the arrays whose samples are not all 0.
C19_MeanReportedWhenPositive ==
    [][flushes' # flushes =>
         /\ SumSeq(LatencyValues(endpointLatencies, TRUE)) > 0 =>
               ReportsMean(lastBatch', "endpoint_latency_ms",
                           LatencyValues(endpointLatencies, TRUE))
         /\ SumSeq(LatencyValues(pizzaCreationLatencies, FALSE)) > 0 =>
               ReportsMean(lastBatch', "pizza_creation_latency_ms",
                           LatencyValues(pizzaCreationLatencies, FALSE))
         /\ endpointLatencies = <<>> =>
               SamplesOf(lastBatch', "endpoint_latency_ms", <<>>) = {}
         /\ pizzaCreationLatencies = <<>> =>
               SamplesOf(lastBatch', "pizza_creation_latency_ms", <<>>) = {}
      ]_vars

\* -------------------------------------------------- the credential in a log
Credentials == {Str("Bearer t1"), Str("Bearer t2")}

\* The payload the request of m would be logged with if its authorization
\* header were h.
PayloadWith(m, h, body) ==
    JsonStringify(Sanitize(LogData([m EXCEPT !.req.authorization = h], body)))

\* C20: the 'http' log event records whether an authorization credential was
\* there, never the credential: the payload of a request with a non-empty
\* authorization header is the payload of the same request with any other
\* non-empty header, with authorized = true, and a request without the header
\* is logged with authorized = false.
C20_CredentialNotLogged ==
    \A r \in DOMAIN http :
        \A i \in EventsOf(http[r].trace, {"log"}) :
            LET m == http[r]
                payload == m.trace[i].body
                body == m.trace[i - 1].body
            IN /\ payload.v.v[1] = <<kAuthorized, Bool(m.req.authorization # Undef)>>
               /\ m.req.authorization # Undef =>
                     \A h \in Credentials : payload = PayloadWith(m, h, body)

C20_Witness ==
    \E r \in DOMAIN http :
        /\ http[r].req.authorization = Str("Bearer t2")
        /\ \E i \in EventsOf(http[r].trace, {"log"}) :
              /\ http[r].trace[i].body = PayloadWith(http[r], Str("Bearer t1"),
                                                     http[r].trace[i - 1].body)
              /\ http[r].trace[i].body.v.v[1] = <<kAuthorized, Bool(TRUE)>>

\* ------------------------------------------------------ the level of a log
\* The status the payload of an 'http' log event carries.
LoggedStatus(payload) == payload.v.v[4][2].v

\* C21: the 'http' log event of a response has level error when the status
\* code is 500 or more, warn when it is 400 to 499 and info otherwise, and the
\* status code is the one the response has when it is logged (the one in the
\* payload of the event).
C21_HttpLevelFromStatus ==
    \A r \in DOMAIN http :
        \A i \in EventsOf(http[r].trace, {"log"}) :
            LET s == LoggedStatus(http[r].trace[i].body)
                level == http[r].trace[i].level
            IN /\ http[r].trace[i].body.v.v[4][1] = kStatus
               /\ s = http[r].statusCode
               /\ s >= 500 => level = "error"
               /\ (400 <= s /\ s < 500) => level = "warn"
               /\ s < 400 => level = "info"

C21_Witness ==
    \E r \in DOMAIN http :
        /\ http[r].statusCode = 500
        /\ http[r].finished
        /\ \E i \in EventsOf(http[r].trace, {"log"}) :
              /\ http[r].trace[i].level = "error"
              /\ LoggedStatus(http[r].trace[i].body) = 500

\* ------------------------------------------------- one POST for one call
\* The POSTs a step issued: what posts holds beyond what it held.
Issued == SubSeq(posts', Len(posts) + 1, Len(posts'))

IssuedTo(sink) == SelectSeq(Issued, LAMBDA p : p.sink = sink)

\* The 'log' entries a step added to the trace of response r.
NewLogs(r) ==
    {i \in EventsOf(http'[r].trace, {"log"}) : i > Len(http[r].trace)}

\* C22: telemetry is never retried and never queued.  A step issues POSTs
\* only by appending them to the pending ones, and a step that settles a POST,
\* with success or failure, issues none.  The log POSTs of a step are at most
\* one for each Logger.log call of the step, in order, each with one value,
\* the payload of that call; a flush makes one transport call and issues at
\* most one metrics POST, which carries the batch of that flush by its number,
\* a number no earlier POST has.
C22_NeverRetriedNeverQueued ==
    [][ /\ Len(posts') >= Len(posts) => SubSeq(posts', 1, Len(posts)) = posts
        /\ Len(posts') < Len(posts) =>
              \E i \in 1..Len(posts) : posts' = RemoveAt(posts, i)
        /\ Len(posts') >= Len(posts) =>
              /\ Len(IssuedTo("logs")) > 0 => \E r \in DOMAIN http :
                    /\ Len(IssuedTo("logs")) <= Cardinality(NewLogs(r))
                    /\ \A k \in 1..Len(IssuedTo("logs")) :
                          /\ Len(IssuedTo("logs")[k].body.values) = 1
                          /\ \E i \in NewLogs(r) :
                                /\ IssuedTo("logs")[k].body.values[1] = http'[r].trace[i].body
                                /\ IssuedTo("logs")[k].body.level = http'[r].trace[i].level
                                /\ Cardinality({j \in NewLogs(r) : j <= i}) = k
              /\ Len(IssuedTo("metrics")) <= 1
              /\ Len(IssuedTo("metrics")) = 1 =>
                    /\ flushes' = flushes + 1
                    /\ sendOutcome' = "returned"
                    /\ IssuedTo("metrics")[1].body = [flush |-> flushes']
                    /\ \A k \in 1..Len(posts) :
                          posts[k].sink = "metrics" => posts[k].body.flush < flushes'
        /\ flushes' # flushes =>
              /\ flushes' = flushes + 1
              /\ sendOutcome' \in {"returned", "threw"}
              /\ sendOutcome' = "threw" => Issued = <<>>
      ]_vars

C22_Witness ==
    /\ flushes >= 2
    /\ settled.metrics = "networkError"
    /\ settled.logs = "status500"
    /\ \E r \in DOMAIN http : LogCount(r) >= 1
    /\ posts = <<>>

\* ------------------------------------------------ the shape of a sample
\* The values a sample carries under an attribute key.
AttributeValues(sample, key) ==
    {sample.attributes[i][2] : i \in {j \in 1..Len(sample.attributes) :
                                         sample.attributes[j][1] = key}}

\* The per-sample attribute of a metric name: its key and the values it takes.
PerSampleAttributes ==
    { <<"http_requests_total", "method", Methods \cup {"ALL"}>>,
      <<"auth_attempts_total", "status", {"success", "failure"}>> }

\* C23: every sample of a batch carries the source attribute of the
\* configuration beside its per-sample attributes (method for
\* http_requests_total, status for auth_attempts_total); a sum sample is
\* marked cumulative and monotonic, a gauge sample carries neither mark.
C23_SamplesCarrySourceAndMarks ==
    \A j \in 1..Len(lastBatch) :
        LET sample == lastBatch[j]
        IN /\ AttributeValues(sample, "source") = {cfg.metricsSource}
           /\ Cardinality({i \in 1..Len(sample.attributes) :
                              sample.attributes[i][1] = "source"}) = 1
           /\ \A a \in PerSampleAttributes :
                 sample.name = a[1] =>
                    /\ Cardinality(AttributeValues(sample, a[2])) = 1
                    /\ AttributeValues(sample, a[2]) \subseteq a[3]
           /\ sample.type \in {"sum", "gauge"}
           /\ sample.type = "sum" =>
                 /\ sample.aggregationTemporality = "AGGREGATION_TEMPORALITY_CUMULATIVE"
                 /\ sample.isMonotonic = "true"
           /\ sample.type = "gauge" =>
                 /\ sample.aggregationTemporality = "absent"
                 /\ sample.isMonotonic = "absent"

C23_Witness ==
    /\ flushes >= 1
    /\ cfg.metricsSource = "jwt-pizza-service-dev"
    /\ \E j \in 1..Len(lastBatch) :
          /\ lastBatch[j].name = "http_requests_total"
          /\ lastBatch[j].attributes =
                << <<"method", "POST">>, <<"source", "jwt-pizza-service-dev">> >>
          /\ lastBatch[j].isMonotonic = "true"
    /\ \E j \in 1..Len(lastBatch) :
          /\ lastBatch[j].name = "endpoint_latency_ms"
          /\ lastBatch[j].type = "gauge"
          /\ lastBatch[j].attributes = << <<"source", "jwt-pizza-service-dev">> >>
          /\ lastBatch[j].isMonotonic = "absent"

\* ------------------------------------------------ the response body logged
\* What the log is to hold of a response body: the value a JSON text denotes,
\* any other string itself, and a body that is no string as it is given.
BodyToLog(body) == IF body.t = "text" THEN body.v ELSE body

Wrappers == {"wrappedSend", "wrappedJson"}

\* C24: the res member of an 'http' log payload is the parsed value when the
\* response body is a string that parses, the string itself when it does not
\* parse, and the body as given when it is no string (each as sanitize and the
\* serialisation of the payload leave it); every call of a wrapper, whatever
\* its body, is followed by its log event and raises no parse error into the
\* handler.
C24_BodyParsedOrRaw ==
    /\ raised # "SyntaxError"
    /\ \A r \in DOMAIN http :
          \A i \in EventsOf(http[r].trace, Wrappers) :
              /\ i < Len(http[r].trace)
              /\ http[r].trace[i + 1].ev = "log"
              /\ http[r].trace[i + 1].body.t = "text"
              /\ http[r].trace[i + 1].body.v.v[7] =
                    <<kRes, Sanitize(BodyToLog(http[r].trace[i].body))>>

C24_Witness ==
    \E r \in DOMAIN http :
        /\ http[r].finished
        /\ raised = "none"
        /\ \E i \in EventsOf(http[r].trace, {"wrappedSend"}) :
              /\ http[r].trace[i].body = Str("unauthorized")
              /\ http[r].trace[i + 1].ev = "log"
              /\ http[r].trace[i + 1].body.v.v[7] = <<kRes, Str("unauthorized")>>

\* ------------------------------------------------- the trim of every flush
\* The flush cut the array to its last 50 if it held more than 100, and left
\* at most 100 in it.
CutAtFlush(before, after) ==
    /\ Len(before) > TrimThreshold =>
          after = [i \in 1..TrimKeep |-> before[Len(before) - TrimKeep + i]]
    /\ Len(after) <= TrimThreshold

\* C25: every flush cycle performs the latency trim, whatever became of the
\* submission of its batch (returned, or raised because the metrics api key is
\* missing; the url set or missing): after the flush each array holds at most
\* 100 samples, a longer one cut to its last 50.
C25_TrimWhateverTheOutcome ==
    [][flushes' # flushes =>
         /\ sendOutcome' \in {"returned", "threw"}
         /\ CutAtFlush(endpointLatencies, endpointLatencies')
         /\ CutAtFlush(pizzaCreationLatencies, pizzaCreationLatencies')
      ]_vars

\* C25 with the metrics api key set, the url set or missing.
C25_TrimWhenKeyIsSet ==
    [][(flushes' # flushes /\ cfg.metricsApiKeyPresent) =>
         /\ sendOutcome' = "returned"
         /\ CutAtFlush(endpointLatencies, endpointLatencies')
         /\ CutAtFlush(pizzaCreationLatencies, pizzaCreationLatencies')
      ]_vars

\* ------------------------------------------------------- pizza revenue
\* C26: pizzaRevenue is a monotonic sum: whatever price a trackPizzaPurchase
\* call passes (none, zero, positive, negative), pizzaRevenue after the call
\* is at least what it was before.
C26_RevenueNeverDecreases ==
    [][(hookCalls'.sold # hookCalls.sold \/ hookCalls'.failed # hookCalls.failed) =>
          pizzaRevenue' >= pizzaRevenue]_vars

\* C26 for the calls that pass no price or a price of zero or more.
C26_RevenueGrowsByPrice ==
    [][(hookCalls'.sold # hookCalls.sold \/ hookCalls'.failed # hookCalls.failed) =>
          /\ hookCalls'.revenue >= hookCalls.revenue => pizzaRevenue' >= pizzaRevenue
          /\ pizzaRevenue' - pizzaRevenue = hookCalls'.revenue - hookCalls.revenue]_vars

\* ------------------------------------------------- most-recent retention
\* held is the last Len(held) elements of all, in their order.
IsSuffix(held, all) ==
    /\ Len(held) <= Len(all)
    /\ \A i \in 1..Len(held) : held[i] = all[Len(all) - Len(held) + i]

\* held keeps the newest element of all when there is one.
KeepsNewest(held, all) ==
    Len(all) > 0 => (Len(held) > 0 /\ held[Len(held)] = all[Len(all)])

\* C27: each latency array is a contiguous suffix, in order, of all the
\* samples ever appended to it: the append at the capacity of 1000 and the
\* trim of a flush drop the oldest samples only, and the newest sample
\* appended is always held.
C27_MostRecentRetained ==
    /\ IsSuffix(endpointLatencies, hookCalls.endpointSamples)
    /\ IsSuffix(pizzaCreationLatencies, hookCalls.pizzaSamples)
    /\ KeepsNewest(endpointLatencies, hookCalls.endpointSamples)
    /\ KeepsNewest(pizzaCreationLatencies, hookCalls.pizzaSamples)

C27_Witness ==
    /\ flushes >= 1
    /\ Len(hookCalls.endpointSamples) = LatencyCapacity + 1
    /\ Len(endpointLatencies) = TrimKeep
    /\ endpointLatencies[TrimKeep] = hookCalls.endpointSamples[LatencyCapacity + 1]
    /\ Len(hookCalls.pizzaSamples) = LatencyCapacity + 1
    /\ Len(pizzaCreationLatencies) < Len(hookCalls.pizzaSamples)

\* ------------------------------------------- requests in flight at a flush
\* The requests counted so far, over all methods.
RequestsCounted(reqs) == SumSeq([i \in 1..Len(reqs) |-> reqs[i].count])

\* Math.round of the mean of the latencies of the samples held.
MeanLatency(samples) ==
    RoundDiv(SumSeq([i \in 1..Len(samples) |-> samples[i].latency]), Len(samples))

\* C29: a request is counted when it starts and its latency is recorded when
\* its response finishes.  The endpoint latency samples ever appended are at
\* most the requests counted, and the difference is the requests in flight;
\* the step that counts a request appends no sample, and a sample is appended
\* only by the finish of a request in flight, which counts nothing.  A flush
\* reports every request counted, those in flight included, under
\* http_requests_total, and its endpoint_latency_ms sample, when it emits one,
\* is the mean over samples of finished requests only.
C29_CountedAtStartTimedAtFinish ==
    [][ /\ Len(hookCalls'.endpointSamples) <= RequestsCounted(requests')
        /\ RequestsCounted(requests') - Len(hookCalls'.endpointSamples)
              = Len(finishListeners')
        /\ requests' # requests =>
              /\ RequestsCounted(requests') = RequestsCounted(requests) + 1
              /\ hookCalls'.endpointSamples = hookCalls.endpointSamples
              /\ endpointLatencies' = endpointLatencies
        /\ hookCalls'.endpointSamples # hookCalls.endpointSamples =>
              /\ Len(hookCalls'.endpointSamples) = Len(hookCalls.endpointSamples) + 1
              /\ Len(finishListeners') = Len(finishListeners) - 1
              /\ requests' = requests
        /\ flushes' # flushes =>
              /\ ReportsOnce(lastBatch', "http_requests_total", <<"method", "ALL">>,
                             "sum", RequestsCounted(requests))
              /\ \A j \in SamplesOf(lastBatch', "endpoint_latency_ms", <<>>) :
                    /\ endpointLatencies # <<>>
                    /\ IsSuffix(endpointLatencies, hookCalls.endpointSamples)
                    /\ lastBatch'[j].value = MeanLatency(endpointLatencies)
      ]_vars

C29_Witness ==
    /\ flushes >= 1
    /\ RequestsCounted(requests) = 2
    /\ Len(finishListeners) = 1
    /\ hookCalls.endpointSamples = << [endpoint |-> "GET", latency |-> 120] >>
    /\ ReportsOnce(lastBatch, "http_requests_total", <<"method", "ALL">>, "sum", 2)
    /\ ReportsOnce(lastBatch, "endpoint_latency_ms", <<>>, "gauge", 120)

\* ------------------------------------------------ a flush cycle that fails
\* C28: a flush cycle that fails does not stop the scheduler.  When the
\* submission raises inside the timer callback the error ends in the
\* callback's own diagnostic, nothing is left unhandled and the timer that
\* ticked stays armed as it was; every flush builds its batch from the
\* counters as they are then; and with the timer firing as long as it is
\* armed, a flush that failed is followed by a later flush.
C28_FailedFlushKeepsScheduler ==
    /\ [][(flushes' # flushes /\ sendOutcome' = "threw") =>
            /\ console' = <<"Error sending metrics">>
            /\ ~unhandled'
            /\ timers' = timers /\ metricsTimer' = metricsTimer
            /\ timers' # {}
         ]_vars
    /\ [][flushes' # flushes =>
            /\ ReportsOnce(lastBatch', "auth_attempts_total", <<"status", "success">>,
                           "sum", authSuccessCount')
            /\ ReportsOnce(lastBatch', "auth_attempts_total", <<"status", "failure">>,
                           "sum", authFailureCount')
         ]_vars
    /\ \A n \in 1..(MaxFlushes - 1) :
          (flushes = n /\ sendOutcome = "threw") ~> (flushes > n)

C28_Witness ==
    /\ ~cfg.metricsApiKeyPresent
    /\ flushes >= 2
    /\ sendOutcome = "threw"
    /\ timers = {metricsTimer}
    /\ authSuccessCount = 1 /\ authFailureCount = 1
    /\ ReportsOnce(lastBatch, "auth_attempts_total", <<"status", "success">>, "sum", 1)
    /\ ReportsOnce(lastBatch, "auth_attempts_total", <<"status", "failure">>, "sum", 1)

\* ------------------------------------------------- requests side by side
\* The payload of an 'http' log event is made of the data of request req, the
\* status of its response and the body its wrapper was called with.
PayloadOfRequest(payload, req, statusCode, body) ==
    /\ payload.t = "text"
    /\ payload.v.v =
          << <<kAuthorized, Bool(req.authorization # Undef)>>,
             <<kMethod, Str(req.method)>>,
             <<kPath, Str(req.originalUrl)>>,
             <<kStatus, Num(statusCode)>>,
             <<kIp, IF req.xForwardedFor # Undef THEN req.xForwardedFor
                    ELSE req.remoteAddress>>,
             <<kReq, Sanitize(req.body)>>,
             <<kRes, Sanitize(BodyToLog(body))>> >>

\* C30: with several requests in the pipeline at once, every 'http' log event
\* takes its method, path, status, ip, request body and response body from
\* the one request whose wrapper built it, and every log POST carries such an
\* event; a call on the response of one request changes nothing of another
\* request: it adds no log to it and restores neither its send nor its json.
C30_RequestsAreIsolated ==
    [][ /\ \A r \in DOMAIN http :
              /\ http'[r].stage = "open" => http'[r].req = RequestOf(r)
              /\ \A i \in EventsOf(http'[r].trace, {"log"}) :
                    /\ http'[r].trace[i - 1].ev \in Wrappers
                    /\ PayloadOfRequest(http'[r].trace[i].body, RequestOf(r),
                                        http'[r].statusCode, http'[r].trace[i - 1].body)
        /\ \A k \in 1..Len(posts') :
              posts'[k].sink = "logs" =>
                 \E r \in DOMAIN http : \E i \in EventsOf(http'[r].trace, {"log"}) :
                     posts'[k].body.values = << http'[r].trace[i].body >>
        /\ \A r \in DOMAIN http :
              http'[r] # http[r] =>
                 \A q \in DOMAIN http \ {r} : http'[q] = http[q]
      ]_vars

C30_Witness ==
    /\ \A r \in ConcurrentIds : http[r].finished /\ LogCount(r) >= 1
    /\ http[1].statusCode = 400 /\ http[2].statusCode = 500
    /\ Len(posts) >= 2
    /\ posts[1].body.level = "error"
    /\ posts[Len(posts)].body.level = "warn"
    /\ \E i \in EventsOf(http[1].trace, {"log"}) :
          PayloadOfRequest(http[1].trace[i].body, RequestOf(1), 400, Str("unauthorized"))

\* Wherever in holds the marker as a value, out holds it at the same key or
\* index (JSON leaves out an object's undefined members, so keys are looked
\* up; below a secret key only the value at that key is compared).
RECURSIVE MarkersKept(_, _, _)
MarkersKept(marker, in, out) ==
    CASE in.t = "str" -> (in.v = marker.v => out = marker)
      [] in.t = "obj" ->
            /\ out.t = "obj"
            /\ \A i \in 1..Len(in.v) :
                  in.v[i][2].t # "undef" =>
                     \E j \in 1..Len(out.v) :
                         /\ out.v[j][1] = in.v[i][1]
                         /\ IF NamesSecret(in.v[i][1])
                            THEN in.v[i][2] = marker => out.v[j][2] = marker
                            ELSE MarkersKept(marker, in.v[i][2], out.v[j][2])
      [] in.t = "arr" ->
            /\ out.t = "arr"
            /\ Len(out.v) = Len(in.v)
            /\ \A i \in 1..Len(in.v) : MarkersKept(marker, in.v[i], out.v[i])
      [] OTHER -> TRUE

\* The markers of a params array, element by element.
ParamMarkersKept(in, out) ==
    in.t = "arr" =>
        /\ out.t = "arr"
        /\ Len(out.v) = Len(in.v)
        /\ \A i \in 1..Len(in.v) : in.v[i] = RedactedParam => out.v[i] = RedactedParam

\* C31: sanitize and sanitizeParams are idempotent: a further pass over what
\* a pass returned (the nested structure sanitize(x), the sequence
\* sanitizeParams(p)) raises nothing and returns a value equal to the one it
\* was given; and in every pass, first or further, a redaction marker of the
\* input is the marker in the output.
C31_FurtherPassChangesNothing ==
    [][ /\ (call.fn = "sanitize" /\ call'.fn = "sanitize") =>
              /\ call'.arg = call.result
              /\ call'.threw = "none"
              /\ call'.result = call.result
              /\ call'.argAfter = call.result
        /\ (call.fn = "sanitizeParams" /\ call'.fn = "sanitizeParams") =>
              /\ call'.arg = call.result
              /\ call'.result = call.result
        /\ (call'.fn = "sanitize" /\ call'.threw = "none") =>
              MarkersKept(Redacted, call'.arg, call'.result)
        /\ call'.fn = "sanitizeParams" =>
              ParamMarkersKept(call'.arg, call'.result)
      ]_vars

\* The second pass over { items: [ { Password: '*****' }, null ] }, which the
\* first pass returned, returns it again.
C31_Witness ==
    /\ call.fn = "sanitize"
    /\ "pass" \in DOMAIN call
    /\ call.arg = Obj(<< <<kItemsKey,
                           Arr(<<Obj(<< <<kPasswordKey, Redacted>> >>), Null>>)>> >>)
    /\ call.result = call.arg
    /\ call.threw = "none"

\* The second pass over [ '*****', '*****', 7 ], which the first pass
\* returned, returns it again.
C31_WitnessParams ==
    /\ call.fn = "sanitizeParams"
    /\ "pass" \in DOMAIN call
    /\ call.arg.t = "arr"
    /\ \E i \in 1..Len(call.arg.v) : call.arg.v[i] = RedactedParam
    /\ \E i \in 1..Len(call.arg.v) : call.arg.v[i] = Num(7)
    /\ call.result = call.arg

====
